---- MODULE Spec2Model ----
\* State-machine model of main.py: the in-memory stores (BASES, the USER_ dicts,
\* CALLERS, the REC_ dicts), the webhook handlers that mutate them, and the
\* rdv_scheduler task.  A handler is one atomic action: every handler mutates
\* the stores in a block that contains no await.  The scheduler is suspended
\* only at `await bot.send_message` and `await asyncio.sleep`, so it is modelled
\* by the actions that run between those awaits.
\* Times are minutes; a calendar day is OneDay minutes.
EXTENDS Integers, Sequences, FiniteSets, TLC

\* ---------------------------------------------------------------- bounds
MaxDays    == 1      \* midnights the clock may cross
MaxNotes   == 1      \* notes a record may hold

\* ------------------------------------------------------- program constants
LeadMinutes == 5     \* timedelta(minutes=5)
OneDay      == 1440  \* timedelta(days=1), in minutes

\* ------------------------------------------------------------ input pools
Users      == {"u1", "u2"}
BaseNames  == {"default", "b1", "b2"}
ClockStep  == 4                     \* minutes the clock advances in one tick
SlotTimes  == {3, 10}               \* appointment instants an action token may name
CallerIdSeq == <<"c1", "c2">>       \* uuid4().hex[:8] values, in order of issue
RdvIdSeq    == <<"r1", "r2">>       \* uuid4().hex values, in order of issue
\* Text messages: two base names, the name of the initial base, a text with a space
\* in it, a text of blanks only, and "x41", which stands for the text of 41 letters x.
Texts      == {"b1", "b2", "default", "a b", " ", "x41"}

None == <<>>
Some(x) == <<x>>

VARIABLES
    now,               \* datetime.now(TZ), minutes
    BASES,             \* name -> {"records", "phone_count", "records_list", "dept_counts"}
    BASES_keys,        \* insertion order of the keys of BASES
    USER_PREFS,        \* user -> active_db
    USER_STATE,        \* user -> pending-input flags
    USER_DAILY_STATS,  \* user -> day -> {"treated", "missed", "cases"}
    USER_TREATED,      \* user -> base -> list of rid
    USER_MISSED,
    USER_INPROGRESS,
    USER_RDV,          \* user -> base -> list of appointment objects (by id)
    USER_RDV_keys,     \* insertion order of the keys of USER_RDV and of each USER_RDV[u]
    RDV,               \* the appointment dicts: id -> {"rid","at_iso","remind_iso","sent","chat_id"}
    CALLERS,           \* user -> list of {"id","name","active"}
    REC_ASSIGN,        \* user -> base -> rid -> {"caller_id","since_iso"}
    REC_LAST_CALLER,   \* user -> base -> rid -> {"caller_id","last_iso"}
    TREATED_META,      \* user -> base -> rid -> {"caller_id","at_iso"}
    uuids,             \* how many caller ids and appointment ids were issued
    scan,              \* the rdv_scheduler task: where it is suspended
    sink,              \* bot.send_message calls of the scheduler, per appointment
    downloads,         \* handle_import_file calls suspended at `await bot.download`
    cycles,            \* parity of the number of scheduler cycles begun
    last               \* the event handled by the latest step

vars == <<now, BASES, BASES_keys, USER_PREFS, USER_STATE, USER_DAILY_STATS,
          USER_TREATED, USER_MISSED, USER_INPROGRESS, USER_RDV, USER_RDV_keys, RDV,
          CALLERS, REC_ASSIGN, REC_LAST_CALLER, TREATED_META, uuids, scan, sink,
          downloads, cycles, last>>

\* ------------------------------------------------------------ dict helpers
DictSet(d, k, v) == [x \in (DOMAIN d) \cup {k} |-> IF x = k THEN v ELSE d[x]]
DictPop(d, k) == [x \in (DOMAIN d) \ {k} |-> d[x]]
DictGet(d, k, dflt) == IF k \in DOMAIN d THEN d[k] ELSE dflt
SetDefault(d, k, v) == IF k \in DOMAIN d THEN d ELSE DictSet(d, k, v)
EmptyDict == [x \in {} |-> None]
Range(s) == {s[i] : i \in DOMAIN s}
\* the keys of d[u], none when d has no entry for u
KeysOf(d, u) == IF u \in DOMAIN d THEN DOMAIN d[u] ELSE {}
Contains(s, x) == \E i \in DOMAIN s : s[i] = x
\* list.remove(x): the first occurrence
RECURSIVE ListRemove(_, _)
ListRemove(s, x) ==
    IF s = <<>> THEN <<>>
    ELSE IF Head(s) = x THEN Tail(s)
    ELSE <<Head(s)>> \o ListRemove(Tail(s), x)
Count(s, x) == Cardinality({i \in DOMAIN s : s[i] = x})
\* The event a step handled: the handler, its user, the fields of its action token,
\* and what the handler found for the record the token names.
Event(op, user, base, rid, arg, pre) ==
    [op |-> op, user |-> user, base |-> base, rid |-> rid, arg |-> arg, pre |-> pre]

\* -------------------------------------------------------------- the clock
today_str == now \div OneDay

\* ------------------------------------------------------------ ensure_user
FreshState ==
    [awaiting_base_name |-> FALSE, awaiting_import_for_base |-> None,
     awaiting_search_number |-> FALSE, awaiting_note_for |-> None,
     awaiting_rdv_for |-> None, awaiting_caller_name |-> FALSE]

\* The stores after ensure_user(u), as a record of the per-user dicts.
Stores ==
    [prefs |-> USER_PREFS, state |-> USER_STATE, stats |-> USER_DAILY_STATS,
     treated |-> USER_TREATED, missed |-> USER_MISSED, inprogress |-> USER_INPROGRESS,
     rdv |-> USER_RDV, rdv_keys |-> USER_RDV_keys, callers |-> CALLERS,
     assign |-> REC_ASSIGN, lastc |-> REC_LAST_CALLER, tmeta |-> TREATED_META]

ensure_user(S, u) ==
    [S EXCEPT
       !.prefs = SetDefault(@, u, "default"),
       !.state = SetDefault(@, u, FreshState),
       !.stats = SetDefault(@, u, EmptyDict),
       !.treated = SetDefault(@, u, EmptyDict),
       !.missed = SetDefault(@, u, EmptyDict),
       !.inprogress = SetDefault(@, u, EmptyDict),
       !.rdv = SetDefault(@, u, EmptyDict),
       !.rdv_keys = IF u \in DOMAIN S.rdv THEN @
                    ELSE [@ EXCEPT !.users = Append(@, u),
                                   !.bases = DictSet(@, u, <<>>)],
       !.callers = SetDefault(@, u, <<>>),
       !.assign = SetDefault(@, u, EmptyDict),
       !.lastc = SetDefault(@, u, EmptyDict),
       !.tmeta = SetDefault(@, u, EmptyDict)]

get_active_db(S, u) == DictGet(S.prefs, u, "default")

\* For a user ensure_user never saw, USER_TREATED[user_id] raises KeyError right
\* after the assignment to USER_PREFS, and the handler ends there.
set_active_db(S, u, dbname) ==
    IF u \notin DOMAIN S.treated THEN [S EXCEPT !.prefs = DictSet(@, u, dbname)]
    ELSE
    [S EXCEPT
       !.prefs = DictSet(@, u, dbname),
       !.treated[u] = SetDefault(@, dbname, <<>>),
       !.missed[u] = SetDefault(@, dbname, <<>>),
       !.inprogress[u] = SetDefault(@, dbname, <<>>),
       !.rdv[u] = SetDefault(@, dbname, <<>>),
       !.rdv_keys = IF dbname \in DOMAIN S.rdv[u] THEN @
                    ELSE [@ EXCEPT !.bases[u] = Append(@, dbname)],
       !.assign[u] = SetDefault(@, dbname, EmptyDict),
       !.lastc[u] = SetDefault(@, dbname, EmptyDict),
       !.tmeta[u] = SetDefault(@, dbname, EmptyDict)]

\* Write a record of per-user dicts back to the variables.
Commit(S) ==
    /\ USER_PREFS' = S.prefs
    /\ USER_STATE' = S.state
    /\ USER_DAILY_STATS' = S.stats
    /\ USER_TREATED' = S.treated
    /\ USER_MISSED' = S.missed
    /\ USER_INPROGRESS' = S.inprogress
    /\ USER_RDV' = S.rdv
    /\ USER_RDV_keys' = S.rdv_keys
    /\ CALLERS' = S.callers
    /\ REC_ASSIGN' = S.assign
    /\ REC_LAST_CALLER' = S.lastc
    /\ TREATED_META' = S.tmeta

\* ------------------------------------------------------------ daily stats
ZeroStats == [treated |-> 0, missed |-> 0, cases |-> 0]

\* get_today_stats then stats[key] += delta
inc_stat(S, u, key, delta) ==
    LET S1 == ensure_user(S, u)
        bucket == DictGet(S1.stats[u], today_str, ZeroStats)
    IN [S1 EXCEPT !.stats[u] = DictSet(@, today_str, [bucket EXCEPT ![key] = @ + delta])]

\* stats.get(key, 0) of the bucket of day d, 0 when there is no bucket
StatOf(stats, u, d, key) ==
    IF u \in DOMAIN stats /\ d \in DOMAIN stats[u] THEN stats[u][d][key] ELSE 0
TodayStat(u, key) == StatOf(USER_DAILY_STATS, u, today_str, key)

\* ------------------------------------------------------------ find_record
find_record(base, rid) ==
    IF base \in DOMAIN BASES /\ \E i \in DOMAIN BASES[base].records_list :
                                    BASES[base].records_list[i].rid = rid
    THEN Some(CHOOSE i \in DOMAIN BASES[base].records_list :
                  BASES[base].records_list[i].rid = rid)
    ELSE None

\* ------------------------------------------------------ character strings
\* A str the parser reads is a sequence of one-character strings.
Digit10 == <<"0", "1", "2", "3", "4", "5", "6", "7", "8", "9">>
IsDigit(c) == c \in Range(Digit10)
\* \s
IsSpace(c) == c \in {" ", "\t"}
StartsWith(s, p) == Len(s) >= Len(p) /\ SubSeq(s, 1, Len(p)) = p
DropFirst(s, n) == SubSeq(s, n + 1, Len(s))
RECURSIVE LStrip(_)
LStrip(s) == IF s /= <<>> /\ IsSpace(Head(s)) THEN LStrip(Tail(s)) ELSE s
RECURSIVE RStrip(_)
RStrip(s) == IF s /= <<>> /\ IsSpace(s[Len(s)]) THEN RStrip(SubSeq(s, 1, Len(s) - 1)) ELSE s
\* str.strip()
Strip(s) == RStrip(LStrip(s))
\* re.sub(r"^\s*<prefix>\s*", "0", s)
SubPrefix(s, prefix) ==
    IF StartsWith(LStrip(s), prefix)
    THEN <<"0">> \o LStrip(DropFirst(LStrip(s), Len(prefix)))
    ELSE s
\* re.sub(r"\D", "", s)
OnlyDigits(s) == SelectSeq(s, IsDigit)

\* -------------------------------------------------------- normalize_phone
\* lines 148-151: the digits the tests of lines 152-157 look at
PhoneDigits(s) ==
    OnlyDigits(SubPrefix(SubPrefix(Strip(s), <<"+", "3", "3">>), <<"0", "0", "3", "3">>))

\* `s` is None or Some(str)
normalize_phone(s) ==
    IF s = None \/ s[1] = <<>> THEN None
    ELSE LET digits == PhoneDigits(s[1])
         IN IF digits /= <<>> /\ digits[1] = "0" /\ Len(digits) >= 10
            THEN Some(SubSeq(digits, 1, 10))
            ELSE LET d9 == IF Len(digits) = 9 /\ digits[1] /= "0"
                           THEN <<"0">> \o digits ELSE digits
                 IN IF Len(d9) = 10 /\ d9[1] = "0" THEN Some(d9) ELSE None

\* ----------------------------------------------------------- dept_from_cp
\* re.fullmatch(r"\d{5}", cp)
IsDigits5(cp) == Len(cp) = 5 /\ \A i \in 1..5 : IsDigit(cp[i])
dept_from_cp(cp) ==
    IF cp = None \/ ~IsDigits5(cp[1]) THEN None
    ELSE IF cp[1][1] = "9" /\ cp[1][2] \in {"7", "8"} THEN Some(SubSeq(cp[1], 1, 3))
    ELSE Some(SubSeq(cp[1], 1, 2))


\* ------------------------------------------------------------ the parser
LowerAZ == <<"a", "b", "c", "d", "e", "f", "g", "h", "i", "j", "k", "l", "m",
             "n", "o", "p", "q", "r", "s", "t", "u", "v", "w", "x", "y", "z">>
UpperAZ == <<"A", "B", "C", "D", "E", "F", "G", "H", "I", "J", "K", "L", "M",
             "N", "O", "P", "Q", "R", "S", "T", "U", "V", "W", "X", "Y", "Z">>
IndexIn(seq, c) == CHOOSE i \in DOMAIN seq : seq[i] = c
\* str.upper() and str.lower(); the texts hold no accented letter
ToUpper(s) == [i \in DOMAIN s |->
                  IF s[i] \in Range(LowerAZ) THEN UpperAZ[IndexIn(LowerAZ, s[i])] ELSE s[i]]
ToLower(s) == [i \in DOMAIN s |->
                  IF s[i] \in Range(UpperAZ) THEN LowerAZ[IndexIn(UpperAZ, s[i])] ELSE s[i]]
\* p in s
HasSub(s, p) == \E i \in 1..(Len(s) - Len(p) + 1) : SubSeq(s, i, i + Len(p) - 1) = p
\* str.replace(" ", "")
RemoveSpaces(s) == SelectSeq(s, LAMBDA c : c /= " ")

\* The class [A-Za-z...\s/.-] of re_kv, without its accented letters
IsKeyChar(c) == c \in Range(LowerAZ) \cup Range(UpperAZ) \cup {"/", ".", "-"} \/ IsSpace(c)
RECURSIVE KeyLen(_)
\* length of the longest prefix made of characters of the class
KeyLen(s) == IF s /= <<>> /\ IsKeyChar(Head(s)) THEN 1 + KeyLen(Tail(s)) ELSE 0

\* re_kv.match(line) for a stripped line: group(1) and group(2).strip(), or None.
\* No character of the class is ":", so group(1) is the whole prefix before the
\* first ":", and it matches only when that prefix is made of the class.
re_kv(line) ==
    LET k == KeyLen(line)
        rest == Strip(DropFirst(line, k + 1))
    IN IF k >= 1 /\ k < Len(line) /\ line[k + 1] = ":" /\ rest /= <<>>
       THEN Some([key |-> SubSeq(line, 1, k), val |-> rest])
       ELSE None

\* re_iban.match(v): ^[A-Z]{2}\d{2}[A-Z0-9]{11,}$
re_iban(v) ==
    /\ Len(v) >= 15
    /\ \A i \in 1..2 : v[i] \in Range(UpperAZ)
    /\ \A i \in 3..4 : IsDigit(v[i])
    /\ \A i \in 5..Len(v) : v[i] \in Range(UpperAZ) \/ IsDigit(v[i])

\* re_cp.match(val) for a stripped val: the five digits of a final "(ddddd)"
re_cp(val) ==
    IF /\ Len(val) >= 7
       /\ val[Len(val)] = ")"
       /\ val[Len(val) - 6] = "("
       /\ \A i \in (Len(val) - 5)..(Len(val) - 1) : IsDigit(val[i])
    THEN Some(SubSeq(val, Len(val) - 5, Len(val) - 1))
    ELSE None

\* The least index of s that satisfies Test, 0 when none does
FirstIndex(s, Test(_)) ==
    IF \E i \in DOMAIN s : Test(i)
    THEN CHOOSE i \in DOMAIN s : Test(i) /\ \A j \in 1..(i - 1) : ~Test(j)
    ELSE 0

RECURSIVE SplitOn(_, _)
\* the pieces of s between the occurrences of the character c
SplitOn(s, c) ==
    LET k == FirstIndex(s, LAMBDA i : s[i] = c)
    IN IF k = 0 THEN <<s>>
       ELSE <<SubSeq(s, 1, k - 1)>> \o SplitOn(DropFirst(s, k), c)

\* [l.strip() for l in block.splitlines() if l.strip()]
StrippedLines(block) ==
    LET ls == SplitOn(block, "\n")
    IN SelectSeq([i \in DOMAIN ls |-> Strip(ls[i])], LAMBDA l : l /= <<>>)

\* The fields of `data` that the import and the final test read.  bic, dob, statut,
\* adresse, ville and the two name parts are parsed and stored, never read again.
NoData ==
    [iban |-> None, full_name_raw |-> None, email |-> None, cp |-> None,
     mobile |-> None, voip |-> None]

Str_IBAN == <<"I", "B", "A", "N">>
Str_BIC == <<"B", "I", "C">>
Str_NA == <<"N", "/", "A">>

\* group(2) with its blanks removed, when it is an IBAN
IbanOf(m) == IF m /= None /\ re_iban(RemoveSpaces(m[1].val))
             THEN Some(RemoveSpaces(m[1].val)) ELSE None

RECURSIVE HeadLoop(_, _, _)
\* The first while loop (lines 183-203) from line i: the data and the index at
\* which the second loop starts.
HeadLoop(lines, i, data) ==
    IF i > Len(lines) THEN [i |-> i, data |-> data]
    ELSE LET line == lines[i]
         IN IF StartsWith(ToUpper(line), Str_IBAN)
            THEN HeadLoop(lines, i + 1,
                          IF IbanOf(re_kv(line)) /= None
                          THEN [data EXCEPT !.iban = IbanOf(re_kv(line))] ELSE data)
            ELSE IF StartsWith(ToUpper(line), Str_BIC)
            THEN HeadLoop(lines, i + 1, data)
            ELSE IF ":" \notin Range(line)
            THEN [i |-> i + 1, data |-> [data EXCEPT !.full_name_raw = Some(line)]]
            ELSE HeadLoop(lines, i + 1, data)

\* One "key: value" line of the second loop (lines 209-228)
KeyValue(data, m) ==
    LET key == ToLower(Strip(m.key))
        val == IF ToUpper(m.val) = Str_NA THEN None ELSE Some(m.val)
        Is(word) == StartsWith(key, word)
    IN IF Is(<<"d", "o", "b">>) \/ HasSub(key, <<"n", "a", "i", "s", "s">>) THEN data
       ELSE IF Is(<<"e", "m", "a", "i", "l">>) THEN [data EXCEPT !.email = val]
       ELSE IF Is(<<"s", "t", "a", "t", "u", "t">>) THEN data
       ELSE IF Is(<<"a", "d", "r", "e", "s", "s", "e">>) THEN data
       ELSE IF Is(<<"v", "i", "l", "l", "e">>)
            THEN IF val /= None /\ re_cp(val[1]) /= None
                 THEN [data EXCEPT !.cp = re_cp(val[1])] ELSE data
       ELSE IF Is(<<"m", "o", "b", "i", "l", "e">>)
            THEN [data EXCEPT !.mobile = normalize_phone(val)]
       ELSE IF Is(<<"v", "o", "i", "p">>) THEN [data EXCEPT !.voip = normalize_phone(val)]
       ELSE IF Is(<<"i", "b", "a", "n">>) /\ data.iban = None
            THEN IF val /= None /\ re_iban(RemoveSpaces(val[1]))
                 THEN [data EXCEPT !.iban = Some(RemoveSpaces(val[1]))] ELSE data
       ELSE data

RECURSIVE FieldLoop(_, _, _)
\* The second while loop (lines 205-229) from line i
FieldLoop(lines, i, data) ==
    IF i > Len(lines) THEN data
    ELSE FieldLoop(lines, i + 1,
                   IF re_kv(lines[i]) = None THEN data
                   ELSE KeyValue(data, re_kv(lines[i])[1]))

\* The test without the fields: every block with a line gives a record.
Identified_Always(data) == TRUE

\* any([data["mobile"], data["voip"], data["email"], data["full_name_raw"], data["iban"]])
Identified(data) ==
    \E f \in {"mobile", "voip", "email", "full_name_raw", "iban"} : data[f] /= None

parse_txt_block(block) ==
    LET lines == StrippedLines(block)
        h == HeadLoop(lines, 1, NoData)
        data == FieldLoop(lines, h.i, h.data)
    IN IF lines = <<>> THEN None
       ELSE IF ~Identified(data) THEN None
       ELSE Some(data)

RECURSIVE SkipNewlines(_)
SkipNewlines(s) == IF s /= <<>> /\ Head(s) = "\n" THEN SkipNewlines(Tail(s)) ELSE s
RECURSIVE SplitBlocks(_)
\* re.split(r"(?:\r?\n){2,}", content); the texts hold no "\r"
SplitBlocks(s) ==
    LET k == FirstIndex(s, LAMBDA i : i < Len(s) /\ s[i] = "\n" /\ s[i + 1] = "\n")
    IN IF k = 0 THEN <<s>>
       ELSE <<SubSeq(s, 1, k - 1)>> \o SplitBlocks(SkipNewlines(DropFirst(s, k - 1)))

RECURSIVE ParsedOf(_)
\* the records of the blocks that gave one, in order
ParsedOf(blocks) ==
    IF blocks = <<>> THEN <<>>
    ELSE parse_txt_block(Head(blocks)) \o ParsedOf(Tail(blocks))

parse_txt_blocks(content) == ParsedOf(SplitBlocks(content))

\* -------------------------------------------------------- _exclusive_move
\* The loop without its lst.remove(rid).
RemoveFromOther_Keep(S, u, base, rid, key, target) ==
    [S EXCEPT ![key][u] = SetDefault(@, base, <<>>)]

\* One pass of the loop "retirer des autres" for the list `key`.
RemoveFromOther(S, u, base, rid, key, target) ==
    LET S1 == [S EXCEPT ![key][u] = SetDefault(@, base, <<>>)]
    IN IF Contains(S1[key][u][base], rid) /\ key /= target
       THEN LET S2 == [S1 EXCEPT ![key][u][base] = ListRemove(@, rid)]
            IN IF key = "inprogress" THEN inc_stat(S2, u, "cases", -1)
               ELSE IF key = "missed" THEN inc_stat(S2, u, "missed", -1)
               ELSE S2
       ELSE S1

StatKey(target) == IF target = "inprogress" THEN "cases" ELSE target

\* The insertion counting the record even when the target already holds it.
AddToTarget_AlwaysCount(S, u, base, rid, target) ==
    LET S1 == [S EXCEPT ![target][u] = SetDefault(@, base, <<>>)]
        S2 == IF ~Contains(S1[target][u][base], rid)
              THEN [S1 EXCEPT ![target][u][base] = Append(@, rid)] ELSE S1
    IN inc_stat(S2, u, StatKey(target), 1)

\* "ajouter dans la cible"
AddToTarget(S, u, base, rid, target) ==
    LET S1 == [S EXCEPT ![target][u] = SetDefault(@, base, <<>>)]
    IN IF ~Contains(S1[target][u][base], rid)
       THEN inc_stat([S1 EXCEPT ![target][u][base] = Append(@, rid)], u, StatKey(target), 1)
       ELSE S1

\* target is the store the record moves to: "inprogress" (ongoing), "treated", "missed"
_exclusive_move(S, u, base, rid, target) ==
    LET S1 == RemoveFromOther(S, u, base, rid, "inprogress", target)
        S2 == RemoveFromOther(S1, u, base, rid, "treated", target)
        S3 == RemoveFromOther(S2, u, base, rid, "missed", target)
    IN AddToTarget(S3, u, base, rid, target)

\* What a handler finds for a record: the lists that hold it and its assignment.
ListOf(d, u, base) == IF u \in DOMAIN d /\ base \in DOMAIN d[u] THEN d[u][base] ELSE <<>>
MapOf(d, u, base) == IF u \in DOMAIN d /\ base \in DOMAIN d[u] THEN d[u][base] ELSE EmptyDict
Found(u, base, rid) ==
    [lists |-> {k \in {"inprogress", "treated", "missed"} :
                   Contains(ListOf(Stores[k], u, base), rid)},
     caller |-> IF rid \in DOMAIN MapOf(REC_ASSIGN, u, base)
                THEN Some(MapOf(REC_ASSIGN, u, base)[rid].caller_id) ELSE None]

\* What a handler found for the record and what it answered: the text of its
\* safe_cb_answer when it says that something was not found, "other" for any other
\* answer or page, None when the handler returns without answering.
Seen(u, base, rid, answer) ==
    [lists |-> Found(u, base, rid).lists, caller |-> Found(u, base, rid).caller,
     answer |-> answer]

\* The assignment left in place.
PopAssign_Keep(S, u, base, rid) == S

\* conserver dernier calleur, retirer l'assign en cours
PopAssign(S, u, base, rid) ==
    LET m == DictGet(S.assign[u], base, EmptyDict)
    IN IF rid \in DOMAIN m
       THEN [S EXCEPT !.assign[u][base] = DictPop(@, rid),
                      !.lastc[u] = DictSet(@, base,
                          DictSet(DictGet(@, base, EmptyDict), rid,
                                  [caller_id |-> m[rid].caller_id, name |-> m[rid].name,
                                   last_iso |-> now]))]
       ELSE S

\* ---------------------------------------------------------------- rec_ask
\* the verbs rec_ask tests for, and a verb it does not know
RecAskVerbs == {"note", "rdv", "rdv_cancel", "ongoing", "finish", "missed"}
RecAskActions == RecAskVerbs \cup {"other"}

rec_ask_finish(S, u, base, rid) ==
    LET assign == DictGet(DictGet(S.assign[u], base, EmptyDict), rid, None)
        S1 == PopAssign(_exclusive_move(S, u, base, rid, "treated"), u, base, rid)
        lastc == DictGet(DictGet(S1.lastc[u], base, EmptyDict), rid, None)
        cid == IF assign /= None THEN Some(assign.caller_id)
               ELSE IF lastc /= None THEN Some(lastc.caller_id) ELSE None
    IN [S1 EXCEPT !.tmeta[u] = DictSet(@, base,
            DictSet(DictGet(@, base, EmptyDict), rid, [caller_id |-> cid, at_iso |-> now]))]

rec_ask_missed(S, u, base, rid) ==
    PopAssign(_exclusive_move(S, u, base, rid, "missed"), u, base, rid)

rec_ask(u, action, base, rid) ==
    LET S0 == ensure_user(Stores, u)
        S1 == IF find_record(base, rid) = None THEN S0
              ELSE IF action = "note"
                   THEN [S0 EXCEPT !.state[u].awaiting_note_for =
                                       Some([base |-> base, rid |-> rid])]
              ELSE IF action = "finish" THEN rec_ask_finish(S0, u, base, rid)
              ELSE IF action = "missed" THEN rec_ask_missed(S0, u, base, rid)
              ELSE S0
        answer == IF find_record(base, rid) = None THEN Some("Fiche introuvable.")
                  ELSE IF action \in RecAskVerbs THEN Some("other")
                  ELSE None
    IN /\ Commit(S1)
       /\ last' = Event(<<"rec:ask", action>>, u, base, rid, None,
                        Seen(u, base, rid, answer))
       /\ UNCHANGED <<downloads, cycles, now, BASES, BASES_keys, RDV, uuids, scan, sink>>

\* ----------------------------------------------------------------- rec_do
FindCaller(S, u, cid) ==
    IF \E i \in DOMAIN S.callers[u] : S.callers[u][i].id = cid
    THEN Some(S.callers[u][CHOOSE i \in DOMAIN S.callers[u] :
                               /\ S.callers[u][i].id = cid
                               /\ \A j \in 1..(i - 1) : S.callers[u][j].id /= cid])
    ELSE None

rec_do_ongoing(S, u, base, rid, cid) ==
    IF FindCaller(S, u, cid) = None THEN S
    ELSE LET c == FindCaller(S, u, cid)[1]
             S1 == _exclusive_move(S, u, base, rid, "inprogress")
         IN [S1 EXCEPT
               !.assign[u] = DictSet(@, base, DictSet(DictGet(@, base, EmptyDict), rid,
                                 [caller_id |-> cid, name |-> c.name, since_iso |-> now])),
               !.lastc[u] = DictSet(@, base, DictSet(DictGet(@, base, EmptyDict), rid,
                                 [caller_id |-> cid, name |-> c.name, last_iso |-> now]))]

rec_do(u, action, base, rid, cid) ==
    LET S0 == set_active_db(ensure_user(Stores, u), u, base)
        S1 == IF find_record(base, rid) = None THEN S0
              ELSE IF action = "ongoing" THEN rec_do_ongoing(S0, u, base, rid, cid)
              ELSE S0
        answer == IF find_record(base, rid) = None THEN Some("Fiche introuvable.")
                  ELSE IF action /= "ongoing" THEN None
                  ELSE IF FindCaller(S0, u, cid) = None THEN Some("Calleur introuvable.")
                  ELSE Some("other")
    IN /\ Commit(S1)
       /\ last' = Event(<<"rec:do", action>>, u, base, rid, cid,
                        Seen(u, base, rid, answer))
       /\ UNCHANGED <<downloads, cycles, now, BASES, BASES_keys, RDV, uuids, scan, sink>>

\* ------------------------------------------------------------------ texts
\* (message.text or "").strip()
strip(t) == IF t = " " THEN "" ELSE t
NameMax == 40
\* The characters of a text of the pool
Chars(t) ==
    CASE t = "b1" -> <<"b", "1">>
      [] t = "b2" -> <<"b", "2">>
      [] t = "default" -> <<"d", "e", "f", "a", "u", "l", "t">>
      [] t = "a b" -> <<"a", " ", "b">>
      [] t = " " -> <<" ">>
      [] t = "" -> <<>>
      [] t = "x41" -> [i \in 1..(NameMax + 1) |-> "x"]
\* len(raw) > 40
TooLong(t) == Len(Chars(t)) > NameMax
\* re.fullmatch(r"[A-Za-z0-9_]{1,40}", raw) on the characters of raw
NameMatches(cs) ==
    /\ Len(cs) \in 1..NameMax
    /\ \A i \in DOMAIN cs :
           cs[i] \in Range(LowerAZ) \cup Range(UpperAZ) \cup Range(Digit10) \cup {"_"}

\* The test that lets every name through.
IsBaseName_NoCheck(raw) == TRUE

IsBaseName(raw) == NameMatches(Chars(raw))

NewBase ==
    [records |-> 0, phone_count |-> 0, records_list |-> <<>>, dept_counts |-> EmptyDict]

\* ----------------------------------------------------------- capture_text
\* The branch for awaiting_rdv_for (lines 605-632) is not modelled: no line of
\* main.py assigns that flag, so it is None whenever capture_text reads it.
capture_text(u, text) ==
    LET S0 == ensure_user(Stores, u)
        st == S0.state[u]
        raw == strip(text)
        note == st.awaiting_note_for
        rec == IF note = None THEN None ELSE find_record(note[1].base, note[1].rid)
    IN IF st.awaiting_caller_name THEN
            /\ LET S1 == [S0 EXCEPT !.state[u].awaiting_caller_name = FALSE]
                   added == raw /= "" /\ ~TooLong(raw)
               IN /\ Commit(IF added
                            THEN [S1 EXCEPT !.callers[u] = Append(@,
                                     [id |-> CallerIdSeq[uuids.caller + 1], name |-> raw,
                                      active |-> TRUE])]
                            ELSE S1)
                  /\ uuids' = IF added THEN [uuids EXCEPT !.caller = @ + 1] ELSE uuids
            /\ UNCHANGED <<BASES, BASES_keys>>
       ELSE IF note /= None THEN
            /\ Commit([S0 EXCEPT !.state[u].awaiting_note_for = None])
            /\ BASES' = IF rec = None THEN BASES
                        ELSE [BASES EXCEPT ![note[1].base].records_list[rec[1]].notes =
                                               Append(@, raw)]
            /\ UNCHANGED <<BASES_keys, uuids>>
       ELSE IF st.awaiting_base_name THEN
            IF ~IsBaseName(raw) \/ raw \in DOMAIN BASES
            THEN Commit(S0) /\ UNCHANGED <<BASES, BASES_keys, uuids>>
            ELSE /\ BASES' = DictSet(BASES, raw, NewBase)
                 /\ BASES_keys' = Append(BASES_keys, raw)
                 /\ Commit([set_active_db(
                               [S0 EXCEPT !.state[u].awaiting_base_name = FALSE], u, raw)
                            EXCEPT !.state[u].awaiting_import_for_base = Some(raw)])
                 /\ UNCHANGED uuids
       ELSE IF st.awaiting_search_number THEN
            /\ Commit([S0 EXCEPT !.state[u].awaiting_search_number = FALSE])
            /\ UNCHANGED <<BASES, BASES_keys, uuids>>
       ELSE Commit(S0) /\ UNCHANGED <<BASES, BASES_keys, uuids>>

CaptureText(u, text) ==
    /\ capture_text(u, text)
    /\ last' = Event(<<"text">>, u, None, None, text, None)
    /\ UNCHANGED <<downloads, cycles, now, RDV, scan, sink>>

\* ------------------------------------------- buttons that set a pending input
start_search(u) ==
    /\ Commit([ensure_user(Stores, u) EXCEPT !.state[u].awaiting_search_number = TRUE])
    /\ last' = Event(<<"home:search">>, u, None, None, None, None)
    /\ UNCHANGED <<downloads, cycles, now, BASES, BASES_keys, RDV, uuids, scan, sink>>

db_create_start(u) ==
    /\ Commit([ensure_user(Stores, u) EXCEPT !.state[u].awaiting_base_name = TRUE])
    /\ last' = Event(<<"db:create">>, u, None, None, None, None)
    /\ UNCHANGED <<downloads, cycles, now, BASES, BASES_keys, RDV, uuids, scan, sink>>

home_callers_add(u) ==
    /\ Commit([ensure_user(Stores, u) EXCEPT !.state[u].awaiting_caller_name = TRUE])
    /\ last' = Event(<<"home:callers:add">>, u, None, None, None, None)
    /\ UNCHANGED <<downloads, cycles, now, BASES, BASES_keys, RDV, uuids, scan, sink>>

db_import_start(u, name) ==
    /\ Commit(IF name \notin DOMAIN BASES THEN Stores
              ELSE [set_active_db(ensure_user(Stores, u), u, name)
                    EXCEPT !.state[u].awaiting_import_for_base = Some(name)])
    /\ last' = Event(<<"db:import">>, u, name, None, None, None)
    /\ UNCHANGED <<downloads, cycles, now, BASES, BASES_keys, RDV, uuids, scan, sink>>

\* get_today_stats: the bucket of today is created when it is read
TouchToday(S, u) == [S EXCEPT !.stats[u] = SetDefault(@, today_str, ZeroStats)]

back_to_start(u) ==
    /\ Commit(TouchToday([ensure_user(Stores, u) EXCEPT
                             !.state[u].awaiting_search_number = FALSE], u))
    /\ last' = Event(<<"nav:start">>, u, None, None, None, None)
    /\ UNCHANGED <<downloads, cycles, now, BASES, BASES_keys, RDV, uuids, scan, sink>>

\* ---------------------------------------------------------------- callers
ToggleFirst(lst, cid) ==
    [i \in DOMAIN lst |->
        IF lst[i].id = cid /\ \A j \in 1..(i - 1) : lst[j].id /= cid
        THEN [lst[i] EXCEPT !.active = ~@] ELSE lst[i]]

home_callers_toggle(u, cid) ==
    /\ Commit(ensure_user(
           [Stores EXCEPT !.callers = IF u \in DOMAIN @
                                      THEN [@ EXCEPT ![u] = ToggleFirst(@, cid)] ELSE @], u))
    /\ last' = Event(<<"home:callers:toggle">>, u, None, None, cid, None)
    /\ UNCHANGED <<downloads, cycles, now, BASES, BASES_keys, RDV, uuids, scan, sink>>

\* ---------------------------------------------------------- home_callers
\* datetime.fromisoformat(dt_iso).astimezone(TZ).date().isoformat() == today_str()
is_today_iso(t) == t \div OneDay = today_str

\* (ongoing_today, treated_today) of caller cid in base
caller_counts(S, u, base, cid) ==
    LET assign == MapOf(S.assign, u, base)
        treated_meta == MapOf(S.tmeta, u, base)
    IN [ongoing |-> Cardinality({r \in DOMAIN assign :
                       assign[r].caller_id = cid /\ is_today_iso(assign[r].since_iso)}),
        treated |-> Cardinality({r \in DOMAIN treated_meta :
                       treated_meta[r].caller_id = Some(cid)
                         /\ is_today_iso(treated_meta[r].at_iso)})]

\* render_callers_text: the two counts the page shows for each caller
CallersPage(S, u) ==
    LET ids == {c.id : c \in Range(DictGet(S.callers, u, <<>>))}
    IN [cid \in ids |-> caller_counts(S, u, get_active_db(S, u), cid)]

home_callers(u) ==
    LET S0 == ensure_user(Stores, u)
    IN /\ Commit(S0)
       /\ last' = Event(<<"home:callers">>, u, get_active_db(S0, u), None, None,
                        [shown |-> CallersPage(S0, u)])
       /\ UNCHANGED <<downloads, cycles, now, BASES, BASES_keys, RDV, uuids, scan, sink>>

\* ------------------------------------------------------- home_callers_del
\* The assignments of user u that name caller cid, as (base, rid) pairs
Naming(assign, u, cid) ==
    UNION {{<<b, r>> : r \in {x \in DOMAIN assign[u][b] : assign[u][b][x].caller_id = cid}} :
              b \in KeysOf(assign, u)}

\* The purge of the active base only.
PurgeAssign_ActiveOnly(S, u, cid) ==
    [S EXCEPT !.assign[u] = [b \in DOMAIN @ |->
        IF b /= get_active_db(S, u) THEN @[b]
        ELSE [r \in {x \in DOMAIN @[b] : @[b][x].caller_id /= cid} |-> @[b][r]]]]

\* The purge over the assignment maps of every operator.
PurgeAssign_EveryUser(S, u, cid) ==
    [S EXCEPT !.assign = [v \in DOMAIN @ |-> [b \in DOMAIN @[v] |->
        [r \in {x \in DOMAIN @[v][b] : @[v][b][x].caller_id /= cid} |-> @[v][b][r]]]]]

\* "retirer ses assignations en cours": the loop over REC_ASSIGN[user_id].items()
PurgeAssign(S, u, cid) ==
    [S EXCEPT !.assign[u] = [b \in DOMAIN @ |->
        [r \in {x \in DOMAIN @[b] : @[b][x].caller_id /= cid} |-> @[b][r]]]]

\* For a user ensure_user never saw, REC_ASSIGN[user_id] raises KeyError right after
\* the assignment to CALLERS[user_id], and the handler ends there.
home_callers_del(u, cid) ==
    LET lst == DictGet(CALLERS, u, <<>>)
        S0 == [Stores EXCEPT !.callers = DictSet(@, u, SelectSeq(lst, LAMBDA c : c.id /= cid))]
    IN /\ Commit(IF u \notin DOMAIN REC_ASSIGN THEN S0
                 ELSE ensure_user(PurgeAssign(S0, u, cid), u))
       /\ last' = Event(<<"home:callers:del">>, u, None, None, cid,
                        [naming |-> Naming(REC_ASSIGN, u, cid)])
       /\ UNCHANGED <<downloads, cycles, now, BASES, BASES_keys, RDV, uuids, scan, sink>>

\* ---------------------------------------------------- home_callers_rename
\* "suppression de l'ancien puis demande du nouveau nom": the caller leaves the
\* list and the next text is taken as the name of a new caller, with a new id.
home_callers_rename(u, cid) ==
    LET S0 == ensure_user(Stores, u)
        old == FindCaller(S0, u, cid)
    IN /\ Commit(IF old = None THEN S0
                 ELSE [S0 EXCEPT !.callers[u] = SelectSeq(@, LAMBDA c : c.id /= cid),
                                 !.state[u].awaiting_caller_name = TRUE])
       /\ last' = Event(<<"home:callers:rename">>, u, None, None, cid,
                        [answer |-> IF old = None THEN Some("Introuvable.") ELSE Some("other"),
                         naming |-> Naming(REC_ASSIGN, u, cid)])
       /\ UNCHANGED <<downloads, cycles, now, BASES, BASES_keys, RDV, uuids, scan, sink>>

\* ----------------------------------------------------- handle_import_file
\* What parse_txt_blocks returns for the documents of the pool.
RecPhone ==
    [NoData EXCEPT !.full_name_raw = Some(<<"D", "u", "p", "o", "n", "t">>),
                   !.mobile = Some(<<"0", "6", "1", "2", "3", "4", "5", "6", "7", "8">>),
                   !.cp = Some(<<"7", "5", "0", "0", "1">>)]
RecPlain == [NoData EXCEPT !.full_name_raw = Some(<<"D", "u", "r", "a", "n", "d">>)]
Files ==
    {[ext |-> "txt", records |-> <<RecPhone>>],
     [ext |-> "txt", records |-> <<RecPlain, RecPhone>>],
     [ext |-> "txt", records |-> <<>>],
     [ext |-> "csv", records |-> <<>>],
     [ext |-> "pdf", records |-> <<>>]}
AllowedExt == {"csv", "json", "jsonl", "txt"}

\* Every record takes the id 0.
NewRid_Zero(base) == 0

\* str(len(BASES[target]["records_list"])); a record id is written as the number
NewRid(base) == Len(base.records_list)

RECURSIVE ImportRecords(_, _)
\* the loop of lines 763-774 over the parsed records
ImportRecords(base, records) ==
    IF records = <<>> THEN base
    ELSE LET r == Head(records)
             dept == dept_from_cp(r.cp)
             rec == [rid |-> NewRid(base), iban |-> r.iban,
                     full_name_raw |-> r.full_name_raw, email |-> r.email,
                     mobile |-> r.mobile, voip |-> r.voip, cp |-> r.cp, dept |-> dept,
                     notes |-> <<>>, next_rdv_iso |-> None]
             b1 == [base EXCEPT
                      !.records_list = Append(@, rec),
                      !.dept_counts = IF dept = None THEN @
                                      ELSE DictSet(@, dept[1], DictGet(@, dept[1], 0) + 1)]
         IN ImportRecords(b1, Tail(records))

\* The count without `if r.get("voip")`.
PhonesOf_MobileOnly(records) ==
    Cardinality({i \in DOMAIN records : records[i].mobile /= None})

PhonesOf(records) ==
    Cardinality({i \in DOMAIN records : records[i].mobile /= None})
      + Cardinality({i \in DOMAIN records : records[i].voip /= None})

\* lines 763-774 and 786-787 for the base `base`
Imported(base, file) ==
    LET recs == IF file.ext = "txt" THEN file.records ELSE <<>>
    IN [ImportRecords(base, recs) EXCEPT !.records = @ + Len(recs),
                                         !.phone_count = @ + PhonesOf(recs)]

\* The handler when no other update is handled while it awaits the download.
handle_import_file(u, file) ==
    LET S0 == ensure_user(Stores, u)
        target == S0.state[u].awaiting_import_for_base
        cleared == [S0 EXCEPT !.state[u].awaiting_import_for_base = None]
    IN /\ last' = Event(<<"document">>, u, target, None, file.ext, None)
       /\ UNCHANGED <<downloads, cycles, now, BASES_keys, RDV, uuids, scan, sink>>
       /\ IF target = None \/ file.ext \notin AllowedExt
          THEN Commit(S0) /\ UNCHANGED BASES
          ELSE IF target[1] \notin DOMAIN BASES
          \* KeyError: caught inside the try (first record of a .txt), not after it
          THEN /\ Commit(IF file.ext = "txt" /\ file.records /= <<>> THEN cleared ELSE S0)
               /\ UNCHANGED BASES
          ELSE /\ Commit(cleared)
               /\ BASES' = [BASES EXCEPT ![target[1]] = Imported(@, file)]

\* The handler in its two parts.  Lines 736-751: the target is read from the
\* session, the extension is tested, and the handler awaits the download.
import_begin(u, file) ==
    LET S0 == ensure_user(Stores, u)
        target == S0.state[u].awaiting_import_for_base
    IN /\ Commit(S0)
       /\ downloads' = IF target = None \/ file.ext \notin AllowedExt THEN downloads
                        ELSE Append(downloads,
                                    [user |-> u, target |-> target[1], file |-> file])
       /\ last' = Event(<<"document", "received">>, u, target, None, file.ext, None)
       /\ UNCHANGED <<cycles, now, BASES, BASES_keys, RDV, uuids, scan, sink>>

\* Lines 753-802: the download of the i-th suspended handler is over.
import_run(i) ==
    LET u == downloads[i].user
        target == downloads[i].target
        file == downloads[i].file
        cleared == [Stores EXCEPT !.state[u].awaiting_import_for_base = None]
        found == target \in DOMAIN BASES
    IN /\ downloads' = SubSeq(downloads, 1, i - 1) \o SubSeq(downloads, i + 1, Len(downloads))
       /\ last' = Event(<<"document", "imported">>, u, target, None, file,
                        [before |-> IF found THEN Some(Len(BASES[target].records_list))
                                    ELSE None])
       /\ UNCHANGED <<cycles, now, BASES_keys, RDV, uuids, scan, sink>>
       /\ IF ~found
          \* KeyError: caught inside the try (first record of a .txt), not after it
          THEN /\ Commit(IF file.ext = "txt" /\ file.records /= <<>> THEN cleared ELSE Stores)
               /\ UNCHANGED BASES
          ELSE /\ Commit(cleared)
               /\ BASES' = [BASES EXCEPT ![target] = Imported(@, file)]

\* -------------------------------------------------------------- db_export
\* A cell of the CSV: csv.DictWriter writes None as the empty string.
CsvCell(v) == IF v = None THEN <<>> ELSE v[1]

\* " | ".join(notes)
RECURSIVE JoinNotes(_)
JoinNotes(notes) ==
    IF notes = <<>> THEN <<>>
    ELSE IF Len(notes) = 1 THEN <<notes[1]>>
    ELSE <<notes[1], " | ">> \o JoinNotes(Tail(notes))

\* writer.writerow(row): the cells of the headers the record has
CsvRow(rec) ==
    [rid |-> rec.rid, full_name_raw |-> CsvCell(rec.full_name_raw),
     email |-> CsvCell(rec.email), mobile |-> CsvCell(rec.mobile),
     voip |-> CsvCell(rec.voip), cp |-> CsvCell(rec.cp), dept |-> CsvCell(rec.dept),
     iban |-> CsvCell(rec.iban), notes |-> JoinNotes(rec.notes),
     next_rdv_iso |-> CsvCell(rec.next_rdv_iso)]

\* The document sent to the operator: <name>.csv.  handle_import_file parses the
\* content of .txt documents only, so the document carries no parsed records.
ExportFile(base) ==
    [ext |-> "csv", content |-> [i \in DOMAIN base.records_list |-> CsvRow(base.records_list[i])],
     records |-> <<>>]

db_export(u, name) ==
    /\ last' = Event(<<"db:export">>, u, name, None, None,
                     [document |-> IF name \in DOMAIN BASES THEN Some(ExportFile(BASES[name]))
                                   ELSE None])
    /\ UNCHANGED <<downloads, cycles, now, BASES, BASES_keys, USER_PREFS, USER_STATE, USER_DAILY_STATS,
                   USER_TREATED, USER_MISSED, USER_INPROGRESS, USER_RDV, USER_RDV_keys,
                   RDV, CALLERS, REC_ASSIGN, REC_LAST_CALLER, TREATED_META, uuids, scan, sink>>

\* The operator sends back the document the export has just delivered.
reimport(u) ==
    /\ last.op = <<"db:export">>
    /\ last.pre.document /= None
    /\ handle_import_file(u, last.pre.document[1])

\* ---------------------------------------------------------------- db_open
db_open(u, name) ==
    /\ Commit(IF name \in DOMAIN BASES THEN set_active_db(Stores, u, name) ELSE Stores)
    /\ last' = Event(<<"db:open">>, u, name, None, None, None)
    /\ UNCHANGED <<downloads, cycles, now, BASES, BASES_keys, RDV, uuids, scan, sink>>

\* -------------------------------------------------------- db_drop_confirm
SelectKeys(keys, S) == SelectSeq(keys, LAMBDA k : k \in S)

\* The guards without the test len(BASES) == 1.
DropAllowed_EvenLast(u, name) ==
    /\ name \in DOMAIN BASES
    /\ get_active_db(Stores, u) = name

\* The three guards of db_drop_confirm
DropAllowed(u, name) ==
    /\ name \in DOMAIN BASES
    /\ get_active_db(Stores, u) = name
    /\ Cardinality(DOMAIN BASES) /= 1

db_drop_confirm(u, name) ==
    LET ok == DropAllowed(u, name)
        keys == SelectKeys(BASES_keys, DOMAIN BASES \ {name})
    IN /\ BASES' = IF ok THEN DictPop(BASES, name) ELSE BASES
       /\ BASES_keys' = IF ok THEN keys ELSE BASES_keys
       /\ Commit(IF ok
                 THEN set_active_db(Stores, u,
                          IF "default" \in DOMAIN BASES \ {name} THEN "default"
                          ELSE IF keys = <<>> THEN "default" ELSE keys[1])
                 ELSE Stores)
       /\ last' = Event(<<"db:dropconfirm">>, u, name, None, None, [dropped |-> ok])
       /\ UNCHANGED <<downloads, cycles, now, RDV, uuids, scan, sink>>

\* --------------------------------------------------------- rec_rdv_create
\* `req` is the instant the token's date and time name.
\* The test with `<` for `<=`.
RollForward_Strict(req) == IF req < now THEN req + OneDay ELSE req

\* if at <= datetime.now(TZ): at = at + timedelta(days=1)
RollForward(req) == IF req <= now THEN req + OneDay ELSE req

NewRdv(rid, at, chat) ==
    [id |-> RdvIdSeq[uuids.rdv + 1], rid |-> rid, at_iso |-> Some(at),
     remind_iso |-> at - LeadMinutes, sent |-> FALSE, chat_id |-> chat]

\* rec["next_rdv_iso"] = at.isoformat()
CacheAfterCreate(base, rid, at) == Some(at)

rec_rdv_create(u, base, rid, req) ==
    LET S0 == set_active_db(ensure_user(Stores, u), u, base)
        rec == find_record(base, rid)
        at == RollForward(req)
        rdv == NewRdv(rid, at, u)
    IN /\ last' = Event(<<"rec:rdv_create">>, u, base, rid, req,
                        [answer |-> IF rec = None THEN Some("Fiche introuvable.")
                                    ELSE Some("other")])
       /\ UNCHANGED <<downloads, cycles, now, BASES_keys, scan, sink>>
       /\ IF rec = None
          THEN Commit(S0) /\ UNCHANGED <<BASES, RDV, uuids>>
          ELSE /\ Commit([S0 EXCEPT !.rdv[u][base] = Append(@, rdv.id)])
               /\ RDV' = DictSet(RDV, rdv.id, rdv)
               /\ uuids' = [uuids EXCEPT !.rdv = @ + 1]
               /\ BASES' = [BASES EXCEPT ![base].records_list[rec[1]].next_rdv_iso =
                                             CacheAfterCreate(base, rid, at)]

\* datetime.fromisoformat(it["at_iso"]) returns: at_iso is Some(instant), or None
\* for a text that cannot be read
Readable(it) == it.at_iso /= None

\* ------------------------------------------------------ get_upcoming_rdvs
\* The appointments of `lst` (ids) that are not sent, belong to rid and are not
\* in the past, as the set of their instants; `heap` holds the appointment dicts.
\* The filter without `if it.get("sent"): continue`.
UpcomingAts_WithSent(heap, lst, rid) ==
    {heap[lst[i]].at_iso[1] : i \in {j \in DOMAIN lst :
        /\ heap[lst[j]].rid = rid
        /\ Readable(heap[lst[j]])
        /\ heap[lst[j]].at_iso[1] >= now}}

UpcomingAts(heap, lst, rid) ==
    {heap[lst[i]].at_iso[1] : i \in {j \in DOMAIN lst :
        /\ ~heap[lst[j]].sent
        /\ heap[lst[j]].rid = rid
        /\ Readable(heap[lst[j]])
        /\ heap[lst[j]].at_iso[1] >= now}}

Earliest(ats) == IF ats = {} THEN None ELSE Some(CHOOSE a \in ats : \A x \in ats : a <= x)

\* ------------------------------------------------------ _cancel_rdv_by_id
\* The filter without `and not it.get("sent")`.
Kept_AlsoSent(lst, rdv_id) == SelectSeq(lst, LAMBDA i : ~(i = rdv_id))

Kept(lst, rdv_id) == SelectSeq(lst, LAMBDA i : ~(i = rdv_id /\ ~RDV[i].sent))

\* The scheduler iterates list objects: a list that _cancel_rdv_by_id replaces in
\* USER_RDV stays, as it was, the list the suspended scheduler is iterating.
FreezeLists(sc, u, base, old) ==
    IF sc.pc = "send" /\ Head(sc.users) = u
    THEN [sc EXCEPT !.bases = [i \in DOMAIN @ |->
             IF @[i].base = base /\ @[i].live
             THEN [@[i] EXCEPT !.live = FALSE, !.items = old] ELSE @[i]]]
    ELSE sc

rdv_do_cancel(u, base, rid, rdv_id) ==
    LET lst == ListOf(USER_RDV, u, base)
        kept == Kept(lst, rdv_id)
        cancelled == kept /= lst
        target == RDV[rdv_id].rid
        rec == find_record(base, target)
    IN /\ last' = Event(<<"rdv:do_cancel">>, u, base, rid, rdv_id, [cancelled |-> cancelled])
       /\ UNCHANGED <<downloads, cycles, now, BASES_keys, USER_PREFS, USER_STATE, USER_DAILY_STATS,
                      USER_TREATED, USER_MISSED, USER_INPROGRESS, USER_RDV_keys, RDV,
                      CALLERS, REC_ASSIGN, REC_LAST_CALLER, TREATED_META, uuids, sink>>
       /\ IF ~cancelled
          THEN UNCHANGED <<BASES, USER_RDV, scan>>
          ELSE /\ USER_RDV' = [USER_RDV EXCEPT ![u][base] = kept]
               /\ scan' = FreezeLists(scan, u, base, lst)
               /\ BASES' = IF rec = None THEN BASES
                           ELSE [BASES EXCEPT ![base].records_list[rec[1]].next_rdv_iso =
                                    Earliest(UpcomingAts(RDV, kept, target))]

\* ---------------------------------------------------------- rdv_scheduler
Asleep == [pc |-> "sleep"]

\* list(bases.items()) for user u: the base names with their list objects
Snapshot(u) ==
    [i \in DOMAIN USER_RDV_keys.bases[u] |->
        [base |-> USER_RDV_keys.bases[u][i], live |-> TRUE, items |-> <<>>]]

ItemsOf(entry, u) == IF entry.live THEN USER_RDV[u][entry.base] ELSE entry.items

\* The loop left for good.
AfterRaise_Exit == [pc |-> "exit", raised |-> TRUE]

\* except Exception: await asyncio.sleep(30), then back to while True
AfterRaise == [pc |-> "sleep", raised |-> TRUE]

\* The test without `if now >= remind_at`.
Due_AnyTime(it, t) == ~it.sent

\* if it.get("sent"): continue ... if now >= remind_at:
Due(it, t) == ~it.sent /\ t >= it.remind_iso

RECURSIVE ScanFrom(_, _, _, _, _)
\* The loops from item i of the first list of bs, for the first user of us, up to
\* the next await: the send of a due appointment, or the sleep that ends the cycle.
ScanFrom(heap, t, us, bs, i) ==
    IF us = <<>> THEN Asleep
    ELSE IF bs = <<>>
         THEN IF Len(us) = 1 THEN Asleep
              ELSE ScanFrom(heap, t, Tail(us), Snapshot(us[2]), 1)
    ELSE IF i > Len(ItemsOf(Head(bs), Head(us)))
         THEN ScanFrom(heap, t, us, Tail(bs), 1)
    ELSE LET it == heap[ItemsOf(Head(bs), Head(us))[i]]
         IN IF ~Due(it, t)
            THEN ScanFrom(heap, t, us, bs, i + 1)
            \* line 1455 is outside the inner try: the exception ends the cycle
            ELSE IF ~Readable(it) THEN AfterRaise
            ELSE [pc |-> "send", now |-> t, users |-> us, bases |-> bs, idx |-> i,
                  seen |-> {}]

\* The appointment whose reminder the suspended scheduler is sending.
Sending(sc) == ItemsOf(Head(sc.bases), Head(sc.users))[sc.idx]

NoCalls == [calls |-> 0, failed |-> 0]
\* bot.send_message is called for the appointment the scheduler stops at
Dispatch(sk, sc) ==
    IF sc.pc = "send"
    THEN DictSet(sk, Sending(sc), [DictGet(sk, Sending(sc), NoCalls) EXCEPT !.calls = @ + 1])
    ELSE sk

\* The appointments stored in USER_RDV
Stored ==
    UNION {UNION {Range(USER_RDV[u][b]) : b \in DOMAIN USER_RDV[u]} : u \in DOMAIN USER_RDV}

\* A cycle starts: now is read, then the loops run to the first await.
ScanBegin ==
    /\ scan.pc = "sleep"
    /\ LET us == USER_RDV_keys.users
           sc == IF us = <<>> THEN Asleep ELSE ScanFrom(RDV, now, us, Snapshot(us[1]), 1)
       IN /\ scan' = IF sc.pc = "send" THEN [sc EXCEPT !.seen = Stored] ELSE sc
          /\ sink' = Dispatch(sink, sc)
    /\ last' = Event(<<"scan", "start">>, None, None, None, now,
                     [seen |-> Stored, from |-> scan])
    /\ UNCHANGED <<downloads, now, BASES, BASES_keys, USER_PREFS, USER_STATE, USER_DAILY_STATS,
                   USER_TREATED, USER_MISSED, USER_INPROGRESS, USER_RDV, USER_RDV_keys,
                   RDV, CALLERS, REC_ASSIGN, REC_LAST_CALLER, TREATED_META, uuids>>

\* `cycles` tells one cycle from the next only where the progress of the loop is
\* checked (ScanStartCounted); elsewhere it stays as it is.
ScanStart == ScanBegin /\ UNCHANGED cycles
ScanStartCounted == ScanBegin /\ cycles' = 1 - cycles

\* The appointment left unsent.
AfterSend_Never(heap, id, ok) == heap

\* The appointment marked only when the send returned.
AfterSend_OnlyDelivered(heap, id, ok) ==
    IF ok THEN [heap EXCEPT ![id].sent = TRUE] ELSE heap

\* try: await bot.send_message(...) except Exception: pass; it["sent"] = True
AfterSend(heap, id, ok) == [heap EXCEPT ![id].sent = TRUE]

\* The send returns (ok) or raises (~ok); the loops run on to the next await.
ScanReturn(ok) ==
    /\ scan.pc = "send"
    /\ LET id == Sending(scan)
           heap == AfterSend(RDV, id, ok)
           sc == ScanFrom(heap, scan.now, scan.users, scan.bases, scan.idx + 1)
           sk == IF ok THEN sink ELSE [sink EXCEPT ![id].failed = @ + 1]
       IN /\ RDV' = heap
          /\ scan' = IF sc.pc = "send" THEN [sc EXCEPT !.seen = scan.seen] ELSE sc
          /\ sink' = Dispatch(sk, sc)
          /\ last' = Event(<<"scan", "return">>, None, None, None, scan.now,
                           [seen |-> scan.seen, id |-> id, ok |-> ok])
    /\ UNCHANGED <<downloads, cycles, now, BASES, BASES_keys, USER_PREFS, USER_STATE, USER_DAILY_STATS,
                   USER_TREATED, USER_MISSED, USER_INPROGRESS, USER_RDV, USER_RDV_keys,
                   CALLERS, REC_ASSIGN, REC_LAST_CALLER, TREATED_META, uuids>>

\* A cycle starts and an exception escapes its loops before any send: the outer
\* except clause takes it.
ScanRaise ==
    /\ scan.pc = "sleep"
    /\ scan' = AfterRaise
    /\ cycles' = 1 - cycles
    /\ last' = Event(<<"scan", "raise">>, None, None, None, now,
                     [seen |-> Stored, from |-> scan])
    /\ UNCHANGED <<downloads, now, BASES, BASES_keys, USER_PREFS, USER_STATE, USER_DAILY_STATS,
                   USER_TREATED, USER_MISSED, USER_INPROGRESS, USER_RDV, USER_RDV_keys,
                   RDV, CALLERS, REC_ASSIGN, REC_LAST_CALLER, TREATED_META, uuids, sink>>

\* The send returns or raises, the appointment is marked, and an exception escapes
\* the loops before the next send.
ScanReturnRaise(ok) ==
    /\ scan.pc = "send"
    /\ LET id == Sending(scan)
       IN /\ RDV' = AfterSend(RDV, id, ok)
          /\ sink' = IF ok THEN sink ELSE [sink EXCEPT ![id].failed = @ + 1]
          /\ last' = Event(<<"scan", "raise">>, None, None, None, scan.now,
                           [seen |-> scan.seen, from |-> scan])
    /\ scan' = AfterRaise
    /\ UNCHANGED <<downloads, cycles, now, BASES, BASES_keys, USER_PREFS, USER_STATE, USER_DAILY_STATS,
                   USER_TREATED, USER_MISSED, USER_INPROGRESS, USER_RDV, USER_RDV_keys,
                   CALLERS, REC_ASSIGN, REC_LAST_CALLER, TREATED_META, uuids>>

\* An appointment entry whose at_iso cannot be read.  No line of main.py writes
\* one: it is the entry the except clauses of get_upcoming_rdvs and of the
\* scheduler are written for.
Malformed(id) ==
    /\ id \in Stored
    /\ ~RDV[id].sent
    /\ Readable(RDV[id])
    /\ RDV' = [RDV EXCEPT ![id].at_iso = None]
    /\ last' = Event(<<"malformed">>, None, None, None, id, None)
    /\ UNCHANGED <<downloads, cycles, now, BASES, BASES_keys, USER_PREFS, USER_STATE, USER_DAILY_STATS,
                   USER_TREATED, USER_MISSED, USER_INPROGRESS, USER_RDV, USER_RDV_keys,
                   CALLERS, REC_ASSIGN, REC_LAST_CALLER, TREATED_META, uuids, scan, sink>>

\* --------------------------------------------------------------- the clock
\* Time passes between two events.
Tick(d) ==
    /\ now' = now + d
    /\ last' = Event(<<"tick">>, None, None, None, None, None)
    /\ UNCHANGED <<downloads, cycles, BASES, BASES_keys, USER_PREFS, USER_STATE, USER_DAILY_STATS,
                   USER_TREATED, USER_MISSED, USER_INPROGRESS, USER_RDV, USER_RDV_keys,
                   RDV, CALLERS, REC_ASSIGN, REC_LAST_CALLER, TREATED_META, uuids, scan, sink>>

\* Midnight passes: the first instant of the next day.
NextDay ==
    /\ now \div OneDay < MaxDays
    /\ now' = OneDay * ((now \div OneDay) + 1)
    /\ last' = Event(<<"midnight">>, None, None, None, None, None)
    /\ UNCHANGED <<downloads, cycles, BASES, BASES_keys, USER_PREFS, USER_STATE, USER_DAILY_STATS,
                   USER_TREATED, USER_MISSED, USER_INPROGRESS, USER_RDV, USER_RDV_keys,
                   RDV, CALLERS, REC_ASSIGN, REC_LAST_CALLER, TREATED_META, uuids, scan, sink>>

\* The stores when the module has been loaded
InitStores ==
    /\ now = 0
    /\ BASES = [b \in {"default"} |->
                  [records |-> 0, phone_count |-> 0, records_list |-> <<>>,
                   dept_counts |-> EmptyDict]]
    /\ BASES_keys = <<"default">>
    /\ USER_PREFS = EmptyDict
    /\ USER_STATE = EmptyDict
    /\ USER_DAILY_STATS = EmptyDict
    /\ USER_TREATED = EmptyDict
    /\ USER_MISSED = EmptyDict
    /\ USER_INPROGRESS = EmptyDict
    /\ USER_RDV = EmptyDict
    /\ USER_RDV_keys = [users |-> <<>>, bases |-> EmptyDict]
    /\ RDV = EmptyDict
    /\ CALLERS = EmptyDict
    /\ REC_ASSIGN = EmptyDict
    /\ REC_LAST_CALLER = EmptyDict
    /\ TREATED_META = EmptyDict
    /\ uuids = [caller |-> 0, rdv |-> 0]
    /\ scan = [pc |-> "sleep"]
    /\ sink = EmptyDict
    /\ downloads = <<>>
    /\ cycles = 0

Init ==
    /\ InitStores
    /\ last = Event(<<"startup">>, None, None, None, None, None)

\* A step that computes a function of its input and leaves the stores alone
Computes(op, input, result) ==
    /\ last' = Event(op, None, None, None, input, [result |-> result])
    /\ UNCHANGED <<downloads, cycles, now, BASES, BASES_keys, USER_PREFS, USER_STATE, USER_DAILY_STATS,
                   USER_TREATED, USER_MISSED, USER_INPROGRESS, USER_RDV, USER_RDV_keys,
                   RDV, CALLERS, REC_ASSIGN, REC_LAST_CALLER, TREATED_META, uuids, scan, sink>>

\* ------------------------------------------------- bounds on the inputs
\* A document fits when no dataset grows beyond n records.
ImportFits(u, file, n) ==
    \A b \in DOMAIN BASES : Len(BASES[b].records_list) + Len(file.records) <= n
\* A document fits its target when the base the import is for stays within n records.
TargetFits(u, file, n) ==
    LET t == DictGet(USER_STATE, u, FreshState).awaiting_import_for_base
    IN (t /= None /\ t[1] \in DOMAIN BASES)
          => Len(BASES[t[1]].records_list) + Len(file.records) <= n
\* A caller id is left to issue.
CallerIdLeft == uuids.caller < Len(CallerIdSeq)
\* No daily counter has reached n.
CountersBelow(n) ==
    \A u \in DOMAIN USER_DAILY_STATS : \A d \in DOMAIN USER_DAILY_STATS[u] :
        USER_DAILY_STATS[u][d].treated < n

\* ------------------------------------------------------- the disposition engine
\* One operator working the records of the initial base with two callers.
DispRecords == 1     \* records the base may hold
DispCount == 2       \* cap on the daily treated counter, which only grows
DispUsers == {"u1"}
DispRids == 0..(DispRecords - 1)
DispFiles == {f \in Files : f.ext = "txt" /\ Len(f.records) = 1}

NextDisp ==
    \/ \E u \in DispUsers : db_import_start(u, "default")
    \/ \E u \in DispUsers, f \in DispFiles :
           ImportFits(u, f, DispRecords) /\ handle_import_file(u, f)
    \/ \E u \in DispUsers : home_callers_add(u)
    \/ \E u \in DispUsers : CallerIdLeft /\ CaptureText(u, "b1")
    \/ \E u \in DispUsers, a \in {"finish", "missed"}, r \in DispRids :
           CountersBelow(DispCount) /\ rec_ask(u, a, "default", r)
    \/ \E u \in DispUsers, r \in DispRids, c \in Range(CallerIdSeq) :
           rec_do(u, "ongoing", "default", r, c)

SpecDisp == Init /\ [][NextDisp]_vars

\* ------------------------------------------------- the appointment scheduler
\* One operator placing and cancelling appointments on the records of the
\* initial base while the scheduler runs and the clock advances.
SchedTicks == 2      \* ticks of the clock
SchedRecords == 1    \* records the base may hold
SchedUsers == {"u1"}
SchedRids == 0..(SchedRecords - 1)
RdvIdLeft == uuids.rdv < Len(RdvIdSeq)

NextSched ==
    \/ \E u \in SchedUsers : db_import_start(u, "default")
    \/ \E u \in SchedUsers, f \in DispFiles :
           ImportFits(u, f, SchedRecords) /\ handle_import_file(u, f)
    \/ \E u \in SchedUsers, r \in SchedRids, t \in SlotTimes :
           RdvIdLeft /\ rec_rdv_create(u, "default", r, t)
    \/ \E u \in SchedUsers, r \in SchedRids, id \in Range(RdvIdSeq) :
           rdv_do_cancel(u, "default", r, id)
    \/ ScanStart
    \/ \E ok \in BOOLEAN : ScanReturn(ok)
    \/ now < SchedTicks * ClockStep /\ Tick(ClockStep)

SpecSched == Init /\ [][NextSched]_vars

\* ------------------------------------------------------ the loop keeps going
\* The scheduler task among an operator's appointments, with cycles that fail.
LiveRecords == 1
LiveTicks == 1

\* asyncio.sleep(30) returns: the next cycle starts (and may fail)
CycleStart == ScanStartCounted \/ ScanRaise
\* bot.send_message returns or raises: the cycle goes on (and may fail)
CycleResume == \E ok \in BOOLEAN : ScanReturn(ok) \/ ScanReturnRaise(ok)

\* the appointments are on the first record, at an instant whose reminder is due
LiveSlots == {3}

NextLive ==
    \/ \E u \in SchedUsers : db_import_start(u, "default")
    \/ \E u \in SchedUsers, f \in DispFiles :
           ImportFits(u, f, LiveRecords) /\ handle_import_file(u, f)
    \/ \E u \in SchedUsers, r \in {0}, t \in LiveSlots :
           RdvIdLeft /\ rec_rdv_create(u, "default", r, t)
    \/ \E u \in SchedUsers, r \in {0}, id \in Range(RdvIdSeq) :
           rdv_do_cancel(u, "default", r, id)
    \/ ScanStartCounted
    \/ ScanRaise
    \/ \E ok \in BOOLEAN : ScanReturn(ok)
    \/ \E ok \in BOOLEAN : ScanReturnRaise(ok)
    \/ now < LiveTicks * ClockStep /\ Tick(ClockStep)

\* The event loop resumes the task when its sleep is over and when the request to
\* Telegram has returned or raised; nothing else is assumed.
SpecLive == /\ Init /\ [][NextLive]_vars
            /\ WF_vars(CycleStart)
            /\ WF_vars(CycleResume)

\* ------------------------------------------------------- the daily counters
\* One operator moving the first record of the initial base between the three
\* lists, with one caller, across midnight.
DailyRecords == 1    \* records the base may hold
DailyCount == 2      \* cap on the daily treated counter, which only grows

NextDaily ==
    \/ \E u \in DispUsers : db_import_start(u, "default")
    \/ \E u \in DispUsers, f \in DispFiles :
           ImportFits(u, f, DailyRecords) /\ handle_import_file(u, f)
    \/ \E u \in DispUsers : home_callers_add(u)
    \/ \E u \in DispUsers : uuids.caller < 1 /\ CaptureText(u, "b1")
    \/ \E u \in DispUsers, a \in {"finish", "missed"}, r \in {0} :
           CountersBelow(DailyCount) /\ rec_ask(u, a, "default", r)
    \/ \E u \in DispUsers, r \in {0} :
           rec_do(u, "ongoing", "default", r, "c1")
    \/ \E u \in DispUsers : home_callers(u)
    \/ NextDay

SpecDaily == Init /\ [][NextDaily]_vars

\* -------------------------------------------------------- deleting a caller
\* One operator with two bases of one record each and two callers, putting the
\* records on line and deleting callers.
PurgeRecords == 1    \* records a base may hold

NextPurge ==
    \/ \E u \in DispUsers : db_create_start(u)
    \/ \E u \in DispUsers : home_callers_add(u)
    \/ \E u \in DispUsers : CallerIdLeft /\ CaptureText(u, "b1")
    \/ \E u \in DispUsers : db_import_start(u, "default")
    \/ \E u \in DispUsers, f \in DispFiles :
           TargetFits(u, f, PurgeRecords) /\ handle_import_file(u, f)
    \/ \E u \in DispUsers, b \in {"default", "b1"}, c \in Range(CallerIdSeq) :
           rec_do(u, "ongoing", b, 0, c)
    \/ \E u \in DispUsers, c \in Range(CallerIdSeq) : home_callers_del(u, c)

SpecPurge == Init /\ [][NextPurge]_vars

\* ------------------------------------------------------ export and re-import
\* One operator imports records into the initial base, creates base b1, exports a
\* base and sends the exported document back as an import.
ExportRecords == 2   \* records a base may hold

NextExport ==
    \/ \E u \in DispUsers : db_import_start(u, "default")
    \/ \E u \in DispUsers, f \in {f \in Files : f.ext = "txt"} :
           TargetFits(u, f, ExportRecords) /\ handle_import_file(u, f)
    \/ \E u \in DispUsers : db_create_start(u)
    \/ \E u \in DispUsers : CaptureText(u, "b1")
    \/ \E u \in DispUsers, b \in {"default", "b1"} : db_export(u, b)
    \/ \E u \in DispUsers : reimport(u)

SpecExport == Init /\ [][NextExport]_vars

\* ------------------------------------------------- an entry that cannot be read
\* The scheduler task among appointments of one record, one of which may have an
\* at_iso that cannot be read.
MalformedRecords == 1

NextMalformed ==
    \/ \E u \in SchedUsers : db_import_start(u, "default")
    \/ \E u \in SchedUsers, f \in DispFiles :
           ImportFits(u, f, MalformedRecords) /\ handle_import_file(u, f)
    \/ \E u \in SchedUsers, t \in LiveSlots :
           RdvIdLeft /\ rec_rdv_create(u, "default", 0, t)
    \/ \E id \in Range(RdvIdSeq) : Malformed(id)
    \/ ScanStartCounted
    \/ \E ok \in BOOLEAN : ScanReturn(ok)

\* The event loop resumes the task when its sleep is over and when the request to
\* Telegram has returned or raised.
SpecMalformed == /\ Init /\ [][NextMalformed]_vars
                 /\ WF_vars(ScanStartCounted)
                 /\ WF_vars(\E ok \in BOOLEAN : ScanReturn(ok))

\* ------------------------------------------------------ placing appointments
\* One operator placing appointments, on the record of the initial base, at
\* instants before, at and after the clock.
PlaceRecords == 1    \* records the base may hold
PlaceTicks == 1      \* ticks of the clock
PlaceSlots == {0, 3, 4, 10}

NextPlace ==
    \/ \E u \in SchedUsers : db_import_start(u, "default")
    \/ \E u \in SchedUsers, f \in DispFiles :
           ImportFits(u, f, PlaceRecords) /\ handle_import_file(u, f)
    \/ \E u \in SchedUsers, r \in 0..PlaceRecords, t \in PlaceSlots :
           RdvIdLeft /\ rec_rdv_create(u, "default", r, t)
    \/ now < PlaceTicks * ClockStep /\ Tick(ClockStep)

SpecPlace == Init /\ [][NextPlace]_vars

\* ------------------------------------------------------ the list of callers
\* One operator adding, renaming, toggling and deleting callers while the record
\* of the initial base is put on line and taken off.
RosterRecords == 1   \* records the base may hold

NextRoster ==
    \/ \E u \in DispUsers : db_import_start(u, "default")
    \/ \E u \in DispUsers, f \in DispFiles :
           ImportFits(u, f, RosterRecords) /\ handle_import_file(u, f)
    \/ \E u \in DispUsers : home_callers_add(u)
    \/ \E u \in DispUsers : CallerIdLeft /\ CaptureText(u, "b1")
    \/ \E u \in DispUsers, c \in Range(CallerIdSeq) : home_callers_rename(u, c)
    \/ \E u \in DispUsers, c \in Range(CallerIdSeq) : home_callers_toggle(u, c)
    \/ \E u \in DispUsers, c \in Range(CallerIdSeq) : home_callers_del(u, c)
    \/ \E u \in DispUsers, c \in Range(CallerIdSeq) :
           rec_do(u, "ongoing", "default", 0, c)
    \/ \E u \in DispUsers, a \in {"finish", "missed"} :
           CountersBelow(DispCount) /\ rec_ask(u, a, "default", 0)

SpecRoster == Init /\ [][NextRoster]_vars

\* ------------------------------------------------------- two operators at work
\* Two operators working the first record of the initial base: one caller and one
\* appointment, each created by either operator; a token may name the other
\* operator's caller or appointment.  The import is asked for while the base can
\* still grow.
ShareRecords == 1    \* records the base may hold
ShareCount == 1      \* cap on the daily treated counter, which only grows

NextShare ==
    \/ \E u \in {"u1"}, f \in DispFiles :
           ImportFits(u, f, ShareRecords) /\ db_import_start(u, "default")
    \/ \E u \in {"u1"}, f \in DispFiles :
           ImportFits(u, f, ShareRecords) /\ handle_import_file(u, f)
    \/ \E u \in Users : uuids.caller < 1 /\ home_callers_add(u)
    \/ \E u \in Users : uuids.caller < 1 /\ CaptureText(u, "b1")
    \/ \E u \in Users : rec_do(u, "ongoing", "default", 0, "c1")
    \/ \E u \in Users :
           CountersBelow(ShareCount) /\ rec_ask(u, "finish", "default", 0)
    \/ \E u \in Users : home_callers_del(u, "c1")
    \/ \E u \in Users : uuids.rdv < 1 /\ rec_rdv_create(u, "default", 0, 3)
    \/ \E u \in Users : rdv_do_cancel(u, "default", 0, "r1")

SpecShare == Init /\ [][NextShare]_vars

\* ------------------------------------------------- buttons of an earlier day
\* One operator placing appointments on the record of the initial base with the
\* buttons of a page shown on the first day, pressed that day or the next.
NextStale ==
    \/ \E u \in SchedUsers : db_import_start(u, "default")
    \/ \E u \in SchedUsers, f \in DispFiles :
           ImportFits(u, f, PlaceRecords) /\ handle_import_file(u, f)
    \/ \E u \in SchedUsers, t \in PlaceSlots :
           RdvIdLeft /\ rec_rdv_create(u, "default", 0, t)
    \/ now % OneDay < PlaceTicks * ClockStep /\ Tick(ClockStep)
    \/ NextDay

SpecStale == Init /\ [][NextStale]_vars

\* ------------------------------------------- a document for a base that is gone
\* One operator creates base b1, asks to import into a base, deletes bases and
\* sends documents of every kind.
OrphanRecords == 1   \* records a base may hold

NextOrphan ==
    \/ \E u \in DispUsers : db_create_start(u)
    \/ \E u \in DispUsers : CaptureText(u, "b1")
    \/ \E u \in DispUsers, b \in {"default", "b1"} : db_import_start(u, b)
    \/ \E u \in DispUsers, b \in {"default", "b1"} : db_open(u, b)
    \/ \E u \in DispUsers, b \in {"default", "b1"} : db_drop_confirm(u, b)
    \/ \E u \in DispUsers, f \in Files :
           TargetFits(u, f, OrphanRecords) /\ handle_import_file(u, f)

SpecOrphan == Init /\ [][NextOrphan]_vars

\* ---------------------------------------------------- callers and their calls
\* One operator adding and toggling callers and putting records on line.
NextCallers ==
    \/ \E u \in DispUsers : db_import_start(u, "default")
    \/ \E u \in DispUsers, f \in DispFiles :
           ImportFits(u, f, DispRecords) /\ handle_import_file(u, f)
    \/ \E u \in DispUsers : home_callers_add(u)
    \/ \E u \in DispUsers : CallerIdLeft /\ CaptureText(u, "b1")
    \/ \E u \in DispUsers, c \in Range(CallerIdSeq) : home_callers_toggle(u, c)
    \/ \E u \in DispUsers, r \in DispRids, c \in Range(CallerIdSeq) :
           rec_do(u, "ongoing", "default", r, c)

SpecCallers == Init /\ [][NextCallers]_vars

\* ------------------------------------------------------------ the dataset store
\* Two operators creating, opening and deleting bases.
StoreNames == {"default", "b1"}
NextBases ==
    \/ \E u \in Users : db_create_start(u)
    \/ \E u \in Users, t \in {"b1", "a b", "x41"} : CaptureText(u, t)
    \/ \E u \in Users, b \in StoreNames : db_open(u, b)
    \/ \E u \in Users, b \in StoreNames : db_drop_confirm(u, b)

SpecBases == Init /\ [][NextBases]_vars

\* ------------------------------------------------- deleting a base that is in use
\* One operator creates base b1, imports a record, places an appointment on it and
\* puts it on line, then deletes b1; the scheduler runs.
CascadeRecords == 1  \* records a base may hold
NextCascade ==
    \/ \E u \in DispUsers : db_create_start(u)
    \/ \E u \in DispUsers : home_callers_add(u)
    \/ \E u \in DispUsers : CallerIdLeft /\ CaptureText(u, "b1")
    \/ \E u \in DispUsers, f \in DispFiles :
           ImportFits(u, f, CascadeRecords) /\ handle_import_file(u, f)
    \/ \E u \in DispUsers : RdvIdLeft /\ rec_rdv_create(u, "b1", 0, 3)
    \/ \E u \in DispUsers, c \in {"c1"} : rec_do(u, "ongoing", "b1", 0, c)
    \/ \E u \in DispUsers : db_drop_confirm(u, "b1")
    \/ ScanStart
    \/ \E ok \in BOOLEAN : ScanReturn(ok)

SpecCascade == Init /\ [][NextCascade]_vars

\* ------------------------------------------------------- the pending inputs
\* One operator pressing the buttons that ask for an input, and answering.
SessionRecords == 1  \* records a base may hold
NextSession ==
    \/ \E u \in DispUsers : start_search(u)
    \/ \E u \in DispUsers : db_create_start(u)
    \/ \E u \in DispUsers : home_callers_add(u)
    \/ \E u \in DispUsers : db_import_start(u, "default")
    \/ \E u \in DispUsers : rec_ask(u, "note", "default", 0)
    \/ \E u \in DispUsers : back_to_start(u)
    \/ \E u \in DispUsers, f \in DispFiles :
           ImportFits(u, f, SessionRecords) /\ handle_import_file(u, f)
    \/ \E u \in DispUsers, t \in {"b1", "a b"} :
           /\ CallerIdLeft
           /\ \A b \in DOMAIN BASES : \A i \in DOMAIN BASES[b].records_list :
                  Len(BASES[b].records_list[i].notes) < MaxNotes
           /\ CaptureText(u, t)

SpecSession == Init /\ [][NextSession]_vars

\* ------------------------------------------------------------ the imports
\* One operator sending documents for the initial base, other updates being
\* handled while a document downloads.
ImportRecordsMax == 2   \* records a base may hold
MaxDownloads == 2       \* handlers suspended at the download at one time

\* Mobile and Ville lines with no name line before them, then empty lines
Text_MobileVille ==
    <<"M", "o", "b", "i", "l", "e", ":", " ", "0", "6", " ", "1", "2", " ", "3", "4",
      " ", "5", "6", " ", "7", "8", "\n", "V", "i", "l", "l", "e", ":", " ", "P", "a",
      "r", "i", "s", " ", "(", "7", "5", "0", "0", "1", ")", "\n", "\n", "\n", "\n">>
\* two blocks, each with a name line
Text_Dupont ==
    <<"D", "u", "p", "o", "n", "t", " ", "-", " ", "J", "e", "a", "n", "\n", "M", "o",
      "b", "i", "l", "e", ":", " ", "0", "6", " ", "1", "2", " ", "3", "4", " ", "5",
      "6", " ", "7", "8", "\n", "V", "i", "l", "l", "e", ":", " ", "P", "a", "r", "i",
      "s", " ", "(", "7", "5", "0", "0", "1", ")", "\n", "\n", "M", "a", "r", "t", "i",
      "n">>
\* a record with two phones and an overseas postal code, then a block with an
\* e-mail line alone
Text_Durand ==
    <<"D", "u", "r", "a", "n", "d", "\n", "V", "o", "i", "p", ":", " ", "0", "0", "3",
      "3", " ", "1", " ", "2", "3", " ", "4", "5", " ", "6", "7", " ", "8", "9", "\n",
      "M", "o", "b", "i", "l", "e", ":", " ", "0", "7", "1", "2", "3", "4", "5", "6",
      "7", "8", "\n", "V", "i", "l", "l", "e", ":", " ", "S", "t", " ", "D", "e", "n",
      "i", "s", " ", "(", "9", "7", "4", "0", "0", ")", "\n", "\n", "E", "m", "a", "i",
      "l", ":", " ", "a", "@", "b", ".", "c">>
Text_Iban ==
    <<"I", "B", "A", "N", ":", " ", "F", "R", "7", "6", "1", "2", "3", "4", "5", "6",
      "7", "8", "9", "0", "1">>

TxtFile(content) == [ext |-> "txt", content |-> content, records |-> parse_txt_blocks(content)]
ImportFiles ==
    {TxtFile(c) : c \in {Text_MobileVille, Text_Dupont, Text_Durand, Text_Iban, <<>>}}
    \cup {[ext |-> "csv", content |-> <<>>, records |-> <<>>],
          [ext |-> "pdf", content |-> <<>>, records |-> <<>>]}

NextImport ==
    \/ \E u \in DispUsers : db_import_start(u, "default")
    \/ \E u \in DispUsers, f \in ImportFiles :
           Len(downloads) < MaxDownloads /\ import_begin(u, f)
    \/ \E i \in DOMAIN downloads :
           /\ ImportFits(downloads[i].user, downloads[i].file, ImportRecordsMax)
           /\ import_run(i)

SpecImport == Init /\ [][NextImport]_vars

\* ------------------------------------------------------- the action tokens
\* One operator pressing buttons whose tokens name a base, a record or a verb
\* that may not exist.
TokenRecords == 1     \* records the base may hold
TokenBases == {"default", "b9"}   \* "b9" is never created
TokenRids == 0..TokenRecords      \* the last one is never a record id

NextTokens ==
    \/ \E u \in DispUsers : db_import_start(u, "default")
    \/ \E u \in DispUsers, f \in DispFiles :
           ImportFits(u, f, TokenRecords) /\ handle_import_file(u, f)
    \/ \E u \in DispUsers : home_callers_add(u)
    \/ \E u \in DispUsers : CallerIdLeft /\ CaptureText(u, "b1")
    \/ \E u \in DispUsers, a \in {"missed", "other"}, b \in TokenBases, r \in TokenRids :
           CountersBelow(DispCount) /\ rec_ask(u, a, b, r)
    \/ \E u \in DispUsers, a \in {"ongoing", "other"}, b \in TokenBases, r \in TokenRids :
           rec_do(u, a, b, r, "c1")
    \/ \E u \in DispUsers, b \in TokenBases, r \in TokenRids :
           RdvIdLeft /\ rec_rdv_create(u, b, r, 3)

SpecTokens == Init /\ [][NextTokens]_vars

\* ------------------------------------------------------- phone numbers
\* normalize_phone applied to numbers written with or without an international
\* prefix, with or without blanks between the pairs of digits.
MaxPhoneDigits == 12   \* digits after the prefix
PhonePrefixes ==
    {<<>>, <<"0">>, <<"+", "3", "3">>, <<"0", "0", "3", "3">>, <<" ", "+", "3", "3", " ">>}
\* 6 1 2 3 4 5 6 7 8 9 0 1 ...
PhoneBody(n) == [i \in 1..n |-> IF i = 1 THEN "6" ELSE Digit10[((i - 1) % 10) + 1]]
RECURSIVE Spaced(_)
\* a blank after every digit
Spaced(s) == IF s = <<>> THEN <<>> ELSE <<Head(s), " ">> \o Spaced(Tail(s))
PhoneInputs ==
    {Some(p \o b) : p \in PhonePrefixes,
                    b \in UNION {{PhoneBody(n), Spaced(PhoneBody(n))} : n \in 0..MaxPhoneDigits}}
    \cup {None}

InitPhone ==
    /\ InitStores
    /\ \E s \in PhoneInputs : last = Event(<<"input">>, None, None, None, s, None)

NextPhone ==
    /\ last.op = <<"input">>
    /\ Computes(<<"normalize_phone">>, last.arg, normalize_phone(last.arg))

SpecPhone == InitPhone /\ [][NextPhone]_vars

\* C1: for every operator, dataset and record id, the record id is in at most one
\* of the operator's lists ongoing (USER_INPROGRESS), treated and missed.
C1_AtMostOneList ==
    \A u \in DOMAIN USER_INPROGRESS : \A b \in BaseNames : \A r \in DispRids :
        Cardinality(Found(u, b, r).lists) <= 1

\* C1 witness: a record that was ongoing has just been moved to treated.
C1_Witness ==
    /\ last.op = <<"rec:ask", "finish">>
    /\ last.pre.lists = {"inprogress"}
    /\ Found(last.user, last.base, last.rid).lists = {"treated"}

IsMarkOngoing(e) == e.op = <<"rec:do", "ongoing">>

\* C4: a markOngoing for a known caller adds 1 to the daily ongoing counter when the
\* record was not ongoing and nothing when it was; when the record was ongoing and
\* assigned to another caller (markOngoing(r, A) then markOngoing(r, B)), afterwards
\* the record is in the ongoing list exactly once and its assignment names B.
C4_SecondMarkOngoing ==
    [][(/\ IsMarkOngoing(last')
        /\ find_record(last'.base, last'.rid) /= None
        /\ FindCaller(ensure_user(Stores, last'.user), last'.user, last'.arg) /= None)
       => LET u == last'.user
              b == last'.base
              r == last'.rid
          IN /\ StatOf(USER_DAILY_STATS', u, today_str, "cases") =
                    StatOf(USER_DAILY_STATS, u, today_str, "cases")
                    + (IF "inprogress" \in last'.pre.lists THEN 0 ELSE 1)
             /\ Count(USER_INPROGRESS'[u][b], r) = 1
             /\ REC_ASSIGN'[u][b][r].caller_id = last'.arg]_vars

\* C4 witness: the record was ongoing for one caller and a markOngoing naming
\* another caller has been handled; the daily ongoing counter reads 1.
C4_Witness ==
    /\ IsMarkOngoing(last)
    /\ last.pre.lists = {"inprogress"}
    /\ last.pre.caller \notin {None, Some(last.arg)}
    /\ REC_ASSIGN[last.user][last.base][last.rid].caller_id = last.arg
    /\ TodayStat(last.user, "cases") = 1

\* C2: the scheduler calls the notification sink at most once per appointment, and
\* when a scan cycle ends, every appointment that was stored when the cycle began,
\* is still stored (never cancelled) and had its remind time reached at the cycle's
\* start is marked sent with exactly one reminder emitted.
C2_ExactlyOneReminder ==
    [][/\ \A id \in DOMAIN sink' : sink'[id].calls <= 1
       /\ (last'.op[1] = "scan" /\ scan'.pc = "sleep")
          => \A id \in last'.pre.seen \cap Stored' :
                 RDV'[id].remind_iso <= last'.arg
                 => RDV'[id].sent /\ DictGet(sink', id, NoCalls).calls = 1]_vars

\* C2 witness: an appointment whose remind time was already past when it was stored
\* (the clock starts at 0) has been sent, a later scan cycle has started with it, and
\* the sink has been called once for it.
C2_Witness ==
    /\ last.op = <<"scan", "start">>
    /\ \E id \in last.pre.seen \cap Stored :
           /\ RDV[id].remind_iso < 0
           /\ RDV[id].sent
           /\ DictGet(sink, id, NoCalls).calls = 1

\* C3: an appointment whose reminder the sink failed to deliver is marked sent when
\* the failed send ends, and the sink is never called a second time for it.
C3_FailedSendIsSent ==
    \A id \in DOMAIN sink :
        sink[id].failed >= 1 => RDV[id].sent /\ sink[id].calls = 1

\* C3 witness: the send of a reminder failed, and a later scan cycle has started
\* with that appointment still stored.
C3_Witness ==
    /\ last.op = <<"scan", "start">>
    /\ \E id \in last.pre.seen \cap Stored :
           DictGet(sink, id, NoCalls).failed = 1 /\ RDV[id].sent

\* C10 (as claimed): after an appointment is created for a record, the record's
\* next_rdv_iso is the earliest instant among the operator's unsent appointments
\* of that record that are not in the past.
C10_CacheIsEarliest ==
    [][(last'.op = <<"rec:rdv_create">> /\ uuids'.rdv /= uuids.rdv)
       => LET rec == find_record(last'.base, last'.rid)[1]
          IN BASES'[last'.base].records_list[rec].next_rdv_iso =
                 Earliest(UpcomingAts(RDV', USER_RDV'[last'.user][last'.base], last'.rid))]_vars

\* C5: at least one dataset exists in every state, and a delete request handled
\* when exactly one dataset remains leaves the datasets unchanged.
C5_LastBaseStays ==
    [][/\ DOMAIN BASES' /= {}
       /\ (last'.op = <<"db:dropconfirm">> /\ Cardinality(DOMAIN BASES) = 1)
          => BASES' = BASES]_vars

\* C5 witness: the operator asked to delete the base they have selected, the only
\* one left after the initial base was deleted, and the request was rejected.
C5_Witness ==
    /\ last.op = <<"db:dropconfirm">>
    /\ ~last.pre.dropped
    /\ DOMAIN BASES = {last.base}
    /\ get_active_db(Stores, last.user) = last.base
    /\ last.base /= "default"

\* C6 (as claimed): no operator's appointment list holds an appointment for a
\* dataset that does not exist, and the scheduler sends no reminder for one.
C6_DropDeletesAppointments ==
    /\ \A u \in DOMAIN USER_RDV : \A b \in DOMAIN USER_RDV[u] :
           b \notin DOMAIN BASES => USER_RDV[u][b] = <<>>
    /\ scan.pc = "send" => Head(scan.bases).base \in DOMAIN BASES

\* C7 (as claimed): no operator's assignment map holds an entry for a record of a
\* dataset that does not exist.
C7_DropDeletesAssignments ==
    \A u \in DOMAIN REC_ASSIGN : \A b \in DOMAIN REC_ASSIGN[u] :
        b \notin DOMAIN BASES => DOMAIN REC_ASSIGN[u][b] = {}

\* The pending-input kinds set in a session
PendingKinds(st) ==
    {k \in {"awaiting_base_name", "awaiting_search_number", "awaiting_caller_name"} : st[k]}
    \cup {k \in {"awaiting_import_for_base", "awaiting_note_for", "awaiting_rdv_for"} :
              st[k] /= None}

\* C8 (as claimed): every operator session has at most one pending-input kind set.
C8_OnePendingInput ==
    \A u \in DOMAIN USER_STATE : Cardinality(PendingKinds(USER_STATE[u])) <= 1

\* C9 (as claimed): a markOngoing naming a caller of the operator's list whose
\* active flag is false changes neither the ongoing list nor the assignment map.
C9_InactiveCallerRefused ==
    [][(/\ IsMarkOngoing(last')
        /\ last'.user \in DOMAIN CALLERS
        /\ FindCaller(Stores, last'.user, last'.arg) /= None
        /\ ~FindCaller(Stores, last'.user, last'.arg)[1].active)
       => /\ ListOf(USER_INPROGRESS', last'.user, last'.base) =
                 ListOf(USER_INPROGRESS, last'.user, last'.base)
          /\ MapOf(REC_ASSIGN', last'.user, last'.base) =
                 MapOf(REC_ASSIGN, last'.user, last'.base)]_vars

\* C11: a cancel request naming an appointment that is marked sent, or an id that
\* no stored appointment has, reports failure and leaves the appointment lists and
\* the appointments unchanged; a cancel that succeeds named a stored appointment
\* that was not sent; an appointment that is stored and sent stays stored.
C11_CancelOnlyUnsent ==
    [][/\ last'.op = <<"rdv:do_cancel">>
          => /\ (last'.arg \notin Stored \/ RDV[last'.arg].sent)
                => /\ ~last'.pre.cancelled
                   /\ USER_RDV' = USER_RDV
                   /\ RDV' = RDV
             /\ last'.pre.cancelled => last'.arg \in Stored /\ ~RDV[last'.arg].sent
       /\ \A id \in Stored : RDV[id].sent => id \in Stored']_vars

\* C11 witness: a cancel request for a stored appointment whose reminder was sent
\* has been refused, and the appointment is still stored.
C11_Witness ==
    /\ last.op = <<"rdv:do_cancel">>
    /\ ~last.pre.cancelled
    /\ last.arg \in Stored
    /\ RDV[last.arg].sent

\* The str "0612345678"
Phone0612345678 == <<"0", "6", "1", "2", "3", "4", "5", "6", "7", "8">>

\* C16 (as claimed): normalize_phone returns a number exactly when the digits left
\* after the prefix replacement are 10 starting with 0, or 9 not starting with 0,
\* and None for every other input, digit strings longer than 10 included; it
\* returns "0612345678" for "+33612345678" and for "0612345678".
C16_TenDigitsOrNone ==
    last.op = <<"normalize_phone">> =>
        LET d == IF last.arg = None THEN <<>> ELSE PhoneDigits(last.arg[1])
            ten == Len(d) = 10 /\ d[1] = "0"
            nine == Len(d) = 9 /\ d[1] /= "0"
        IN /\ last.pre.result /= None <=> (ten \/ nine)
           /\ ten => last.pre.result = Some(d)
           /\ nine => last.pre.result = Some(<<"0">> \o d)
           /\ last.arg \in {Some(<<"+", "3", "3">> \o PhoneBody(9)),
                            Some(<<"0">> \o PhoneBody(9))}
              => last.pre.result = Some(Phone0612345678)

\* The records of a list that satisfy Test
HowMany(rl, Test(_)) == Cardinality({i \in DOMAIN rl : Test(rl[i])})

\* C12: in every state, for every dataset, "records" is the number of records of
\* its list, "phone_count" the number of records with a mobile plus the number
\* with a voip, and "dept_counts" maps each department some record has to the
\* number of records that have it; this holds too while import handlers are
\* suspended at their download.
C12_CountersMatch ==
    \A b \in DOMAIN BASES :
        LET rl == BASES[b].records_list
            depts == {rl[i].dept[1] : i \in {j \in DOMAIN rl : rl[j].dept /= None}}
        IN /\ BASES[b].records = Len(rl)
           /\ BASES[b].phone_count = HowMany(rl, LAMBDA r : r.mobile /= None)
                                       + HowMany(rl, LAMBDA r : r.voip /= None)
           /\ DOMAIN BASES[b].dept_counts = depts
           /\ \A d \in depts :
                  BASES[b].dept_counts[d] = HowMany(rl, LAMBDA r : r.dept = Some(d))

\* C12 witness: a second import into a dataset has run while another import
\* handler is suspended; the dataset holds two records, one of them with a mobile
\* and a voip, and a department count.
C12_Witness ==
    /\ last.op = <<"document", "imported">>
    /\ last.pre.before = Some(1)
    /\ downloads /= <<>>
    /\ Len(BASES[last.base].records_list) = 2
    /\ \E i \in 1..2 : /\ BASES[last.base].records_list[i].mobile /= None
                       /\ BASES[last.base].records_list[i].voip /= None
    /\ DOMAIN BASES[last.base].dept_counts /= {}

\* C13 (as claimed): importing into an empty dataset the text whose first block is
\* the lines "Mobile: 06 12 34 56 78" and "Ville: Paris (75001)" and whose second
\* block is empty lines gives records = 1, phone_count = 1 and dept_counts = {"75": 1}.
C13_MobileVilleScenario ==
    (/\ last.op = <<"document", "imported">>
     /\ last.arg.content = Text_MobileVille
     /\ last.pre.before = Some(0))
    => /\ BASES[last.base].records = 1
       /\ BASES[last.base].phone_count = 1
       /\ BASES[last.base].dept_counts = [d \in {<<"7", "5">>} |-> 1]

\* C14: every record of every dataset has the id of its position in the list
\* (counted from 0), so no two records of a dataset share an id, and a step
\* changes the id of no record of a dataset that exists before and after it.
C14_RecordIdIsPosition ==
    [][\A b \in DOMAIN BASES' :
          /\ \A i \in DOMAIN BASES'[b].records_list :
                 BASES'[b].records_list[i].rid = i - 1
          /\ b \in DOMAIN BASES
             => \A i \in DOMAIN BASES[b].records_list :
                    /\ i \in DOMAIN BASES'[b].records_list
                    /\ BASES'[b].records_list[i].rid = BASES[b].records_list[i].rid]_vars

\* C14 witness: a second import has added a record to a dataset that held one;
\* the two records have the ids 0 and 1.
C14_Witness ==
    /\ last.op = <<"document", "imported">>
    /\ last.pre.before = Some(1)
    /\ Len(BASES[last.base].records_list) = 2
    /\ BASES[last.base].records_list[1].rid = 0
    /\ BASES[last.base].records_list[2].rid = 1

\* C15: every record of every dataset has a mobile, a voip, an e-mail, a name or
\* an IBAN; so the parser gave no record for the blocks without any of them, and
\* the import inserted only what the parser gave.
C15_NoEmptyRecord ==
    \A b \in DOMAIN BASES : \A i \in DOMAIN BASES[b].records_list :
        LET r == BASES[b].records_list[i]
        IN \/ r.mobile /= None
           \/ r.voip /= None
           \/ r.email /= None
           \/ r.full_name_raw /= None
           \/ r.iban /= None

\* C15 witness: the import of a text with more blocks holding a line than records
\* parsed from it has inserted records.
C15_Witness ==
    /\ last.op = <<"document", "imported">>
    /\ last.pre.before /= None
    /\ Len(BASES[last.base].records_list) > last.pre.before[1]
    /\ Len(SelectSeq(SplitBlocks(last.arg.content), LAMBDA b : StrippedLines(b) /= <<>>))
         > Len(last.arg.records)

\* C17: a text received as the name of a new base (the session awaits a base name
\* and neither a caller name nor a note) that is the name of an existing base, or
\* that is not 1 to 40 letters, digits and underscores, changes neither the set of
\* bases, nor any base, nor the operator's active base.
C17_CreateRejected ==
    [][(/\ last'.op = <<"text">>
        /\ last'.user \in DOMAIN USER_STATE
        /\ USER_STATE[last'.user].awaiting_base_name
        /\ ~USER_STATE[last'.user].awaiting_caller_name
        /\ USER_STATE[last'.user].awaiting_note_for = None
        /\ \/ strip(last'.arg) \in DOMAIN BASES
           \/ ~NameMatches(Chars(strip(last'.arg))))
       => /\ BASES' = BASES
          /\ BASES_keys' = BASES_keys
          /\ DictGet(USER_PREFS', last'.user, "default")
               = DictGet(USER_PREFS, last'.user, "default")]_vars

\* C17 witness: an operator being asked for a base name has sent the name of a base
\* that another operator created; the base is not the sender's active base and the
\* sender is still asked for a name.
C17_Witness ==
    /\ last.op = <<"text">>
    /\ strip(last.arg) \in DOMAIN BASES \ {"default"}
    /\ USER_STATE[last.user].awaiting_base_name
    /\ get_active_db(Stores, last.user) /= strip(last.arg)

\* The step leaves what operator u and the bases hold as it was: the bases, the
\* active base, the three lists, the assignments, the daily counters and the
\* appointments (a missing entry and an empty one count as the same).
Untouched(u) ==
    /\ BASES' = BASES
    /\ DictGet(USER_PREFS', u, "default") = DictGet(USER_PREFS, u, "default")
    /\ \A b \in KeysOf(USER_TREATED', u) \cup KeysOf(USER_RDV', u) :
          /\ ListOf(USER_TREATED', u, b) = ListOf(USER_TREATED, u, b)
          /\ ListOf(USER_MISSED', u, b) = ListOf(USER_MISSED, u, b)
          /\ ListOf(USER_INPROGRESS', u, b) = ListOf(USER_INPROGRESS, u, b)
          /\ ListOf(USER_RDV', u, b) = ListOf(USER_RDV, u, b)
          /\ MapOf(REC_ASSIGN', u, b) = MapOf(REC_ASSIGN, u, b)
    /\ \A d \in KeysOf(USER_DAILY_STATS', u) : \A k \in {"treated", "missed", "cases"} :
          StatOf(USER_DAILY_STATS', u, d, k) = StatOf(USER_DAILY_STATS, u, d, k)
    /\ RDV' = RDV

\* C18 (as claimed): a record token (rec:ask, rec:do, rec:rdv_create) that names a
\* base that does not exist, or a record id the base does not hold, leaves the
\* bases, the operator's active base, lists, assignments, counters and
\* appointments as they were.
C18_UnknownRecordToken ==
    [][(/\ last'.op[1] \in {"rec:ask", "rec:do", "rec:rdv_create"}
        /\ find_record(last'.base, last'.rid) = None)
       => Untouched(last'.user)]_vars

\* C19 (as claimed): a rec:ask or rec:do token with a verb the handler does not
\* know, for a record that exists, changes nothing and is answered with a
\* not-found notice.
C19_UnknownVerbToken ==
    [][(/\ \/ last'.op[1] = "rec:ask" /\ last'.op[2] \notin RecAskVerbs
           \/ last'.op[1] = "rec:do" /\ last'.op[2] /= "ongoing"
        /\ find_record(last'.base, last'.rid) /= None)
       => /\ Untouched(last'.user)
          /\ last'.pre.answer \in {Some("Fiche introuvable."), Some("Calleur introuvable.")}]_vars

\* C20: the reminder loop never ends: whatever cycle has started, ended normally
\* or failed, another cycle starts later (the parity of the cycles begun keeps
\* changing).
C20_AnotherCycleStarts ==
    /\ [](cycles = 0 => <>(cycles = 1))
    /\ [](cycles = 1 => <>(cycles = 0))

\* a cycle has started after a cycle that failed
C20_Witness ==
    /\ last.op = <<"scan", "start">>
    /\ last.pre.from = AfterRaise

\* The records of user u that a step puts into a list (before, after) that did not
\* hold them.
Entered(before, after, u) ==
    {br \in UNION {{<<b, r>> : r \in Range(ListOf(after, u, b))} : b \in KeysOf(after, u)} :
        ~Contains(ListOf(before, u, br[1]), br[2])}

EnteredList(u, key) ==
    IF key = "treated" THEN Entered(USER_TREATED, USER_TREATED', u)
    ELSE IF key = "missed" THEN Entered(USER_MISSED, USER_MISSED', u)
    ELSE Entered(USER_INPROGRESS, USER_INPROGRESS', u)

\* C21: a step raises a daily counter (treated, missed, cases) only for the current
\* day and by no more than the number of records the operator moves into the
\* corresponding list in that step; so no counter exceeds the transitions of its
\* day, and an action on a record already in the target list adds nothing.
C21_CountersWithinTransitions ==
    [][\A u \in DOMAIN USER_DAILY_STATS', d \in 0..MaxDays, k \in {"treated", "missed", "cases"} :
          StatOf(USER_DAILY_STATS', u, d, k) - StatOf(USER_DAILY_STATS, u, d, k)
            <= IF d = today_str THEN Cardinality(EnteredList(u, k)) ELSE 0]_vars

\* ongoing, treated, ongoing, treated on the one record of the base: the second
\* Fin d'appel of the day has counted
C21_Witness ==
    /\ last.op = <<"rec:ask", "finish">>
    /\ last.pre.lists = {"inprogress"}
    /\ Len(BASES["default"].records_list) = 1
    /\ TodayStat(last.user, "treated") = 2

\* C22: deleting a caller leaves no assignment naming that caller in any base of
\* the operator, and leaves the last-caller map as it was.
C22_DeletePurgesAssignments ==
    [][last'.op = <<"home:callers:del">>
       => /\ Naming(REC_ASSIGN', last'.user, last'.arg) = {}
          /\ REC_LAST_CALLER' = REC_LAST_CALLER]_vars

\* the deleted caller was assigned records in two bases, and the last-caller map
\* names the caller
C22_Witness ==
    /\ last.op = <<"home:callers:del">>
    /\ {br[1] : br \in last.pre.naming} = {"default", "b1"}
    /\ \E b \in KeysOf(REC_LAST_CALLER, last.user) :
          \E r \in DOMAIN REC_LAST_CALLER[last.user][b] :
              REC_LAST_CALLER[last.user][b][r].caller_id = last.arg

\* C23 (as claimed): the "en ligne" count the callers page shows for a caller is the
\* number of assignments of the operator's active base that name the caller,
\* whatever the day the assignment started.
C23_OngoingNowIsLiveCount ==
    last.op = <<"home:callers">>
    => \A cid \in DOMAIN last.pre.shown :
          last.pre.shown[cid].ongoing =
              Cardinality({r \in DOMAIN MapOf(REC_ASSIGN, last.user, last.base) :
                              MapOf(REC_ASSIGN, last.user, last.base)[r].caller_id = cid})

\* The fields of a record that are neither generated (rid) nor derived (dept)
DataOf(rec) ==
    [iban |-> rec.iban, full_name_raw |-> rec.full_name_raw, email |-> rec.email,
     mobile |-> rec.mobile, voip |-> rec.voip, cp |-> rec.cp]

\* C24 (as claimed): when the document an export has just delivered is imported
\* into an empty base, that base then holds as many records as the exported base,
\* in the same order, with the same value for every non-derived field.
C24_ExportImportRoundTrip ==
    [][(/\ last.op = <<"db:export">>
        /\ last.pre.document /= None
        /\ last'.op = <<"document">>
        /\ last'.arg = "csv"
        /\ last'.base /= None
        /\ last'.base[1] \in DOMAIN BASES
        /\ BASES[last'.base[1]].records_list = <<>>)
       => LET src == BASES[last.base].records_list
              dst == BASES'[last'.base[1]].records_list
          IN /\ Len(dst) = Len(src)
             /\ \A i \in DOMAIN src : DataOf(dst[i]) = DataOf(src[i])]_vars

\* C25 (as claimed): while the scheduler is suspended in the dispatch of a reminder
\* (other handlers may run), the appointment is already marked sent.
C25_SentBeforeDispatch ==
    scan.pc = "send" => RDV[Sending(scan)].sent

\* bot.send_message is called for appointment id in this step
Dispatched(id) == DictGet(sink', id, NoCalls).calls > DictGet(sink, id, NoCalls).calls

\* C26: the scan calls send_message for an appointment only if the appointment is
\* unsent and its remind instant is not after the instant the cycle read as now,
\* which is never after the clock; and sent never goes back to false, so the
\* appointment was unsent at the start of the cycle too.
C26_ReminderOnlyWhenDue ==
    [][/\ \A id \in DOMAIN RDV' :
             Dispatched(id) => /\ ~RDV'[id].sent
                               /\ RDV'[id].remind_iso <= scan'.now
                               /\ scan'.now <= now'
       /\ \A id \in DOMAIN RDV : RDV[id].sent => RDV'[id].sent]_vars

\* a reminder is being sent while another stored appointment is unsent and not
\* yet due
C26_Witness ==
    /\ scan.pc = "send"
    /\ \E id \in Stored : ~RDV[id].sent /\ RDV[id].remind_iso > now

\* A stored appointment that can be read, is unsent and is due
DueUnsent(id) ==
    /\ id \in Stored
    /\ Readable(RDV[id])
    /\ ~RDV[id].sent
    /\ RDV[id].remind_iso <= now

C28_StoredAppointment ==
    [][(last'.op = <<"rec:rdv_create">> /\ find_record(last'.base, last'.rid) /= None)
       => LET lst == USER_RDV'[last'.user][last'.base]
              it == RDV'[lst[Len(lst)]]
              at == IF last'.arg <= now THEN last'.arg + 1440 ELSE last'.arg
          IN /\ lst = Append(ListOf(USER_RDV, last'.user, last'.base), it.id)
             /\ it.id \notin DOMAIN RDV
             /\ it.sent = FALSE
             /\ it.rid = last'.rid
             /\ it.at_iso = Some(at)
             /\ it.remind_iso = at - 5]_vars

\* an appointment was placed at the very instant of the clock, after a tick
C28_Witness ==
    /\ last.op = <<"rec:rdv_create">>
    /\ last.pre.answer = Some("other")
    /\ last.arg = now
    /\ now > 0

\* The instants of the appointments of list lst that are for record rid, unsent
\* and not in the past, in the state after the step
Remaining(lst, rid) ==
    {RDV'[id].at_iso[1] : id \in {x \in Range(lst) :
        RDV'[x].rid = rid /\ ~RDV'[x].sent /\ RDV'[x].at_iso[1] >= now'}}

\* C29: a successful cancel takes exactly the named appointment out of the
\* operator's list of the base, leaves every other list and every appointment as
\* it was, and sets next_rdv_iso of the appointment's record to the earliest
\* instant among the operator's remaining unsent appointments of that record that
\* are not in the past, or to None when there is none.
C29_CancelRemovesAndRefreshes ==
    [][(last'.op = <<"rdv:do_cancel">> /\ last'.pre.cancelled)
       => LET u == last'.user
              b == last'.base
              id == last'.arg
              old == USER_RDV[u][b]
              new == USER_RDV'[u][b]
              rec == find_record(b, RDV[id].rid)
          IN /\ Count(old, id) = 1
             /\ new = SelectSeq(old, LAMBDA x : x /= id)
             /\ USER_RDV' = [USER_RDV EXCEPT ![u][b] = new]
             /\ RDV' = RDV
             /\ rec /= None =>
                  LET ats == Remaining(new, RDV[id].rid)
                      cache == BASES'[b].records_list[rec[1]].next_rdv_iso
                  IN /\ ats = {} => cache = None
                     /\ ats /= {} => /\ cache /= None
                                     /\ cache[1] \in ats
                                     /\ \A a \in ats : cache[1] <= a]_vars

\* an appointment was cancelled while the operator's other appointment for the
\* record was already sent and not yet past: the cache is now None
C29_Witness ==
    /\ last.op = <<"rdv:do_cancel">>
    /\ last.pre.cancelled
    /\ \E id \in Range(USER_RDV[last.user][last.base]) :
          RDV[id].rid = RDV[last.arg].rid /\ RDV[id].sent /\ RDV[id].at_iso[1] >= now

\* C30: Fin d'appel or A rappeler on a record that is ongoing with an assignment
\* leaves no assignment for the record, the last-caller map holding the caller id
\* and name of the assignment removed, and the record in the target list only;
\* Fin d'appel also writes that caller id into the treated-audit map.
C30_FinishClearsAssignment ==
    [][(/\ last'.op \in {<<"rec:ask", "finish">>, <<"rec:ask", "missed">>}
        /\ find_record(last'.base, last'.rid) /= None
        /\ "inprogress" \in last'.pre.lists
        /\ last'.pre.caller /= None)
       => LET u == last'.user
              b == last'.base
              r == last'.rid
              was == REC_ASSIGN[u][b][r]
              target == IF last'.op[2] = "finish" THEN "treated" ELSE "missed"
          IN /\ r \notin DOMAIN MapOf(REC_ASSIGN', u, b)
             /\ r \in DOMAIN MapOf(REC_LAST_CALLER', u, b)
             /\ REC_LAST_CALLER'[u][b][r].caller_id = was.caller_id
             /\ REC_LAST_CALLER'[u][b][r].name = was.name
             /\ Contains(ListOf(USER_TREATED', u, b), r) <=> target = "treated"
             /\ Contains(ListOf(USER_MISSED', u, b), r) <=> target = "missed"
             /\ ~Contains(ListOf(USER_INPROGRESS', u, b), r)
             /\ target = "treated" =>
                   /\ r \in DOMAIN MapOf(TREATED_META', u, b)
                   /\ TREATED_META'[u][b][r].caller_id = Some(was.caller_id)]_vars

\* Fin d'appel on a record that was on line with the second caller
C30_Witness ==
    /\ last.op = <<"rec:ask", "finish">>
    /\ "inprogress" \in last.pre.lists
    /\ last.pre.caller = Some("c2")
    /\ TREATED_META[last.user][last.base][last.rid].caller_id = Some("c2")

\* C31 (as claimed): once a cancel has taken an appointment out of the operator's
\* lists, the scheduler calls send_message for it in no later step, also when
\* the cancel was handled while the scheduler was suspended in another send.
C31_NoReminderAfterCancel ==
    [][\A id \in DOMAIN RDV : id \notin Stored => ~Dispatched(id)]_vars

\* C32 (as claimed): every daily counter (treated, missed, cases) of every operator
\* and every day is 0 or more.
C32_CountersNonNegative ==
    \A u \in DOMAIN USER_DAILY_STATS : \A d \in DOMAIN USER_DAILY_STATS[u] :
        \A k \in {"treated", "missed", "cases"} : USER_DAILY_STATS[u][d][k] >= 0

\* C33 (as claimed): the active base of every operator is a base that exists.
C33_ActiveBaseExists ==
    \A u \in DOMAIN USER_PREFS : USER_PREFS[u] \in DOMAIN BASES

\* C34 (as claimed): for every operator and base, the records that have an entry in
\* the assignment map are the records of the ongoing list.
C34_AssignedIffOngoing ==
    \A u \in DOMAIN USER_INPROGRESS : \A b \in BaseNames :
        DOMAIN MapOf(REC_ASSIGN, u, b) = Range(ListOf(USER_INPROGRESS, u, b))

\* C35 (as claimed): the caller_id of every entry of the assignment map is the id
\* of a caller of the operator's list.
C35_AssignedCallerListed ==
    \A u \in DOMAIN REC_ASSIGN : \A b \in DOMAIN REC_ASSIGN[u] :
        \A r \in DOMAIN REC_ASSIGN[u][b] :
            FindCaller(Stores, u, REC_ASSIGN[u][b][r].caller_id) /= None

\* C36 (as claimed): next_rdv_iso of every record is None or the instant of an
\* appointment some operator holds for that record of that base with sent = false.
C36_CacheNamesUnsent ==
    \A b \in DOMAIN BASES : \A i \in DOMAIN BASES[b].records_list :
        LET rec == BASES[b].records_list[i]
        IN rec.next_rdv_iso /= None
           => \E u \in DOMAIN USER_RDV : \E id \in Range(ListOf(USER_RDV, u, b)) :
                  /\ RDV[id].rid = rec.rid
                  /\ ~RDV[id].sent
                  /\ RDV[id].at_iso = rec.next_rdv_iso

\* d[u], or None when d has no entry for u
Part(d, u) == IF u \in DOMAIN d THEN Some(d[u]) ELSE None

\* What the stores S and the appointment dicts hold for operator u
Holdings(S, heap, u) ==
    [treated |-> Part(S.treated, u), missed |-> Part(S.missed, u),
     inprogress |-> Part(S.inprogress, u), stats |-> Part(S.stats, u),
     callers |-> Part(S.callers, u), assign |-> Part(S.assign, u),
     lastc |-> Part(S.lastc, u), tmeta |-> Part(S.tmeta, u),
     rdv |-> Part(S.rdv, u), state |-> Part(S.state, u),
     appointments |-> [id \in UNION {Range(S.rdv[u][b]) : b \in KeysOf(S.rdv, u)} |-> heap[id]]]

\* C37: a step that handles an update of operator a leaves, for every other
\* operator b, the three lists, the daily counters, the callers, the assignment,
\* last-caller and treated-audit maps, the appointment lists with their
\* appointments and the pending-input flags as they were.
C37_OperatorIsolation ==
    [][\A a \in Users : last'.user = a
          => \A b \in Users \ {a} : Holdings(Stores', RDV', b) = Holdings(Stores, RDV, b)]_vars

\* an operator has asked to delete a caller of another operator, a caller whose
\* assignment the other operator still holds
C37_Witness ==
    /\ last.op = <<"home:callers:del">>
    /\ last.pre.naming = {}
    /\ \E b \in Users \ {last.user} : Naming(REC_ASSIGN, b, last.arg) /= {}

\* C38 (as claimed): an appointment is stored with an instant strictly after the
\* instant at which it is created, whatever instant the token names.
C38_StoredAfterCreation ==
    [][(last'.op = <<"rec:rdv_create">> /\ uuids'.rdv /= uuids.rdv)
       => RDV'[RdvIdSeq[uuids'.rdv]].at_iso[1] > now]_vars

\* C39 (as claimed): a document with an accepted extension, received while the
\* operator's pending import names a base that no longer exists, leaves the
\* pending import cleared and every base as it was.
C39_OrphanImportCleared ==
    [][(/\ last'.op = <<"document">>
        /\ last'.arg \in AllowedExt
        /\ last'.base /= None
        /\ last'.base[1] \notin DOMAIN BASES)
       => /\ USER_STATE'[last'.user].awaiting_import_for_base = None
          /\ BASES' = BASES]_vars

\* C40 (as claimed): every record that the treated-audit map attributes to a caller
\* is in the operator's treated list of that base.
C40_AuditedIsTreated ==
    \A u \in DOMAIN TREATED_META : \A b \in DOMAIN TREATED_META[u] :
        \A r \in DOMAIN TREATED_META[u][b] :
            TREATED_META[u][b][r].caller_id /= None
               => Contains(ListOf(USER_TREATED, u, b), r)

====
